---- MODULE Spec2Model ----
(***************************************************************************)
(* Model of the fabric planner of pluribus-ansible: pn_ztp.py (link        *)
(* address carving, sequential addressing, layer-2 cluster/trunk/vlag      *)
(* construction, layer-3 link addressing) and pn_ebgp.py.                  *)
(*                                                                         *)
(* An IP string "a.b.c.d/p" is the tuple <<a, b, c, d, p>>; an address     *)
(* without prefix is <<a, b, c, d>>.                                       *)
(***************************************************************************)
EXTENDS Integers, Sequences, FiniteSets, TLC

VARIABLES
    calc_in,      \* arguments of calculate_link_ip_addresses
    calc_out,     \* its result
    seq_mode,     \* which sequential assignment runs: "loopback" or "inband"
    seq_base,     \* loopback_address / inband_address as octets (and subnet)
    seq_names,    \* vrouter_names / switch_names as listed by the CLI
    seq_pc,       \* position in assign_loopback_ip / assign_inband_ip
    seq_idx,      \* number of names the for loop has visited
    seq_count,    \* vrouter_count / ip_count
    seq_output,   \* messages appended to output
    loopbacks,    \* fabric: loopback interfaces, pairs <<vrouter, ip>>
    inband_ip,    \* fabric: in-band ip of each switch, pairs <<switch, ip>>
    cmds,         \* log of the mutating CLI commands issued by the current run
    links,        \* topology: physical links [a, aport, b, bport]
    hash_order,   \* the order in which list(set(...)) yields switch names
    clusters,     \* fabric: clusters [name, node1, node2]
    trunks,       \* fabric: trunks [switch, name, ports]
    vlags,        \* fabric: vlags [switch, name, port, peer_switch, peer_port]
    run_no,       \* number of module runs started so far
    spine_list,   \* module.params['pn_spine_list'] of the current run
    l2_pc,        \* position in configure_auto_vlag
    leaf_list,    \* module.params['pn_leaf_list'] of the current run
    non_cluster_leaf, \* the worklist of create_leaf_cluster_vlag
    node1,        \* the leaf popped from the worklist
    node2,        \* the neighbor it is clustered with
    name1,        \* trunk name returned by the first create_trunk_vlag
    name2,        \* trunk name returned by the second create_trunk_vlag
    nc_idx,       \* leaves visited by create_nonclusterleaf_vlag
    prev_run,     \* what the previous run was given and how it ended
    kind,         \* the module of the current run: "ztp" or "ebgp"
    replay,       \* whether the current run repeats the one before it from
                  \* the same fabric state, and the clusters that one ended with
    l3_pc,        \* position in auto_configure_link_ips
    assign_loopback, \* module.params['pn_assign_loopback'] of the current run
    switch_names, \* list(set(...)) of the fabric-node-show names
    l3_i,         \* switches visited by the current "for switch in switch_names"
    available_ips, \* the address list, consumed from its head
    spine_idx,    \* spines visited by "for spine in spine_list"
    leaf_idx,     \* leaves visited by "for leaf in leaf_list"
    leaf_port,    \* ports of the current leaf that face the current spine
    lport,        \* the leaf port taken from leaf_port
    vrouters,     \* fabric: vrouters [name, location]
    interfaces,   \* fabric: vrouter interfaces [vrouter, ip, port]
    auto_trunk,   \* fabric: the switches with the auto-trunk setting on
    handed,       \* the create_interface calls of the current run, in order
    ifs_at_start, \* the vrouter interfaces that existed when the run started
    rc_dropped,   \* the run in which run_cli returned the output of a command
                  \* that ended with an error status; 0 when there is none
    bgp_pc,       \* position in main of pn_ebgp
    bgp_run,      \* number of pn_ebgp runs started so far
    bgp_base,     \* module.params['pn_bgp_as_range'] of the current run
    bgp_idx,      \* vrouters visited by the current "for vrouter in vrouter_names"
    bgp_leaf,     \* bgp_leaf of assigning_bgp_as
    bgp_as,       \* fabric: the bgp-as of the vrouters, pairs <<vrouter, as>>
    bgp_nbrs      \* fabric: bgp neighbors [vrouter, neighbor, remote_as]

addrVars == <<calc_in, calc_out>>

seqVars == <<seq_mode, seq_base, seq_names, seq_pc, seq_idx, seq_count,
             seq_output, loopbacks, inband_ip>>

topoVars == <<links, hash_order>>

fabricL2Vars == <<clusters, trunks, vlags>>

\* what a run is given when it starts
runVars == <<run_no, spine_list, leaf_list, prev_run, kind, replay>>

l2Vars == <<runVars, l2_pc, non_cluster_leaf, node1, node2, name1, name2,
            nc_idx>>

fabricL3Vars == <<vrouters, interfaces, auto_trunk>>

l3Locals == <<switch_names, l3_i, available_ips, spine_idx, leaf_idx,
              leaf_port, lport>>

l3Vars == <<l3_pc, assign_loopback, l3Locals, fabricL3Vars, handed,
            ifs_at_start>>

\* what run_cli keeps of the exit status of the commands
cliVars == <<rc_dropped>>

bgpVars == <<bgp_pc, bgp_run, bgp_base, bgp_idx, bgp_leaf, bgp_as, bgp_nbrs>>

\* the variables the address planner, the sequential addressing, the
\* layer-2 run and the layer-3 run leave alone
notAddr == <<seqVars, topoVars, fabricL2Vars, l2Vars, l3Vars, cliVars,
            bgpVars>>

notSeq == <<addrVars, topoVars, fabricL2Vars, l2Vars, l3Vars, cliVars,
           bgpVars>>

notL2 == <<addrVars, seqVars, l3Vars, cliVars, bgpVars>>

seqLocals == <<seq_mode, seq_base, seq_names, seq_pc, seq_idx, seq_count,
               seq_output>>

notL3 == <<addrVars, topoVars, clusters, vlags, l2_pc, non_cluster_leaf,
           node1, node2, name1, name2, nc_idx, prev_run, kind, replay,
           inband_ip, cliVars, bgpVars>>

vars == <<calc_in, calc_out, seq_mode, seq_base, seq_names, seq_pc, seq_idx,
          seq_count, seq_output, loopbacks, inband_ip, cmds, links, hash_order,
          clusters, trunks, vlags, run_no, l2_pc, spine_list, leaf_list,
          non_cluster_leaf, node1, node2, name1, name2, nc_idx, prev_run,
          kind, replay, l3_pc, assign_loopback, switch_names, l3_i,
          available_ips, spine_idx, leaf_idx, leaf_port, lport, vrouters,
          interfaces, auto_trunk, handed, ifs_at_start, rc_dropped, bgp_pc,
          bgp_run, bgp_base, bgp_idx, bgp_leaf, bgp_as, bgp_nbrs>>

----------------------------------------------------------------------------
(* Bounds *)

\* cidr inputs range over (32 - MaxHostBits) .. 32
MaxHostBits == 10

\* number of module runs against the same fabric
MaxRuns == 2

\* sequential addressing is run for 0 .. MaxSmallCount names, and for the
\* counts around the limit of the last octet
MaxSmallCount == 3

----------------------------------------------------------------------------
(* calculate_link_ip_addresses, pn_ztp.py 336-402 *)

RECURSIVE Pow2(_)
Pow2(n) == IF n <= 0 THEN 1 ELSE 2 * Pow2(n - 1)

RECURSIVE BitAnd(_, _)
BitAnd(a, b) ==
    IF a = 0 \/ b = 0 THEN 0
    ELSE (a % 2) * (b % 2) + 2 * BitAnd(a \div 2, b \div 2)

RECURSIVE SumOver(_, _)
\* sum of f[x] for x in the finite set S
SumOver(f, S) ==
    IF S = {} THEN 0
    ELSE LET x == CHOOSE y \in S : TRUE IN f[x] + SumOver(f, S \ {x})

\* supernet_mapping, a dict lookup: absent keys raise KeyError
supernet_mapping == (30 :> 2) @@ (29 :> 6) @@ (28 :> 14) @@ (27 :> 30)

\* Python list index: a negative index counts from the end of a 4-list
PyIndex(k) == IF k < 0 THEN k + 4 ELSE k

\* mask[j], j in 0..3: for i in range(cidr): mask[i / 8] += 1 << (7 - i % 8)
MaskOctet(cidr, j) ==
    LET I == {i \in 0..(cidr - 1) : i \div 8 = j}
    IN  SumOver([i \in I |-> Pow2(7 - (i % 8))], I)

\* network[j] = int(address[j]) & mask[j]
NetworkOf(address, cidr) ==
    [j \in 1..4 |-> BitAnd(address[j], MaskOctet(cidr, j - 1))]

\* broadcast: for i in range(32 - cidr): broadcast[3 - i / 8] += 1 << (i % 8)
BroadcastOf(address, cidr) ==
    LET network == NetworkOf(address, cidr)
        hostBits(j) == {i \in 0..(32 - cidr - 1) : PyIndex(3 - (i \div 8)) = j}
    IN  [j \in 1..4 |->
            network[j] + SumOver([i \in hostBits(j - 1) |-> Pow2(i % 8)],
                                 hostBits(j - 1))]

\* hostmin .. hostmax appended one by one
RECURSIVE HostRun(_, _)
HostRun(hostmin, hostmax) ==
    IF hostmin <= hostmax THEN <<hostmin>> \o HostRun(hostmin + 1, hostmax)
    ELSE <<>>

\* a variant that advances to hostmax + 1, so that the next sub-block starts
\* on the broadcast address of the previous one
RECURSIVE RowIpsNoSkip(_, _, _, _)
RowIpsNoSkip(i, count, last3, supernet_range) ==
    IF count < last3
    THEN LET hostmin == i + 1
             hostmax == hostmin + supernet_range - 1
         IN  HostRun(hostmin, hostmax)
               \o RowIpsNoSkip(hostmax + 1, hostmax + 1, last3, supernet_range)
    ELSE <<>>

\* the inner loop "while count < last_ip[3]" filling ips_list for one
\* third octet
RECURSIVE RowIps(_, _, _, _)
RowIps(i, count, last3, supernet_range) ==
    IF count < last3
    THEN LET hostmin == i + 1
             hostmax == hostmin + supernet_range - 1
         IN  HostRun(hostmin, hostmax)
               \o RowIps(hostmax + 2, hostmax + 2, last3, supernet_range)
    ELSE <<>>

\* the outer loop "while third_octet <= last_ip[2]"; i and count are reset
\* to 0 after each third octet
RECURSIVE RowsFrom(_, _, _, _, _)
RowsFrom(third_octet, i, last_ip, supernet_range, supernet) ==
    IF third_octet <= last_ip[3]
    THEN LET ips_list == RowIps(i, 0, last_ip[4], supernet_range)
         IN  [k \in 1..Len(ips_list) |->
                 <<last_ip[1], last_ip[2], third_octet, ips_list[k], supernet>>]
               \o RowsFrom(third_octet + 1, 0, last_ip, supernet_range, supernet)
    ELSE <<>>

\* the returned list available_ips for inputs the function accepts
calculate_link_ip_addresses(address, cidr, supernet) ==
    LET supernet_range == supernet_mapping[supernet]
        base_addr == address[4]
        network   == NetworkOf(address, cidr)
        last_ip   == BroadcastOf(address, cidr)
        diff      == base_addr % (supernet_range + 2)
        i         == base_addr - diff
    IN  RowsFrom(network[3], i, last_ip, supernet_range, supernet)

----------------------------------------------------------------------------
(* Specification SpecAddr: the address planner applied to bounded inputs *)

BaseAddrs ==
    { <<192, 168, 1, 0>>, <<192, 168, 1, 77>>, <<10, 0, 252, 0>>,
      <<10, 9, 3, 130>>, <<172, 16, 255, 200>>, <<10, 0, 0, 5>> }

CidrInputs == (32 - MaxHostBits)..32

SupernetInputs == DOMAIN supernet_mapping

NoResult == <<"none">>

SeqIdle ==
    /\ seq_mode = "none" /\ seq_base = <<>> /\ seq_names = <<>>
    /\ seq_pc = "idle" /\ seq_idx = 0 /\ seq_count = 0 /\ seq_output = {}
    /\ loopbacks = {} /\ inband_ip = {}

\* prev_run before the first run
NoRun == [leaf_list |-> <<>>, result |-> "idle", kind |-> "ztp",
          clusters |-> {}, trunks |-> {}, vlags |-> {}]

\* the current run repeats no other
NoReplay == [on |-> FALSE, clusters |-> {}]

\* no run has started
RunIdle ==
    /\ run_no = 0 /\ l2_pc = "idle" /\ spine_list = <<>> /\ leaf_list = <<>>
    /\ non_cluster_leaf = <<>> /\ node1 = <<>> /\ node2 = <<>>
    /\ name1 = <<>> /\ name2 = <<>> /\ nc_idx = 0
    /\ prev_run = NoRun /\ kind = "ztp" /\ replay = NoReplay
    /\ rc_dropped = 0
    /\ bgp_pc = "idle" /\ bgp_run = 0 /\ bgp_base = 0 /\ bgp_idx = 0
    /\ bgp_leaf = 0 /\ bgp_as = {} /\ bgp_nbrs = {}

\* no layer-3 run has started, nothing of layer 3 is configured
L3Idle ==
    /\ l3_pc = "idle" /\ assign_loopback = FALSE
    /\ switch_names = <<>> /\ l3_i = 0 /\ available_ips = <<>>
    /\ spine_idx = 0 /\ leaf_idx = 0 /\ leaf_port = <<>> /\ lport = 0
    /\ vrouters = {} /\ interfaces = {} /\ auto_trunk = {}
    /\ handed = <<>> /\ ifs_at_start = {}

\* the address planner has not been called
AddrIdle ==
    /\ calc_in = [address |-> <<0, 0, 0, 0>>, cidr |-> 32, supernet |-> 30]
    /\ calc_out = NoResult

\* no fabric: nothing is linked, no run has started
L2Idle ==
    /\ links = {} /\ hash_order = <<>>
    /\ clusters = {} /\ trunks = {} /\ vlags = {}
    /\ RunIdle

InitAddr ==
    /\ calc_in \in [address : BaseAddrs, cidr : CidrInputs,
                    supernet : SupernetInputs]
    /\ calc_out = NoResult
    /\ SeqIdle
    /\ L2Idle
    /\ L3Idle
    /\ cmds = <<>>

\* what a call of calculate_link_ip_addresses ends in: KeyError at 355 for
\* a supernet that is no key of supernet_mapping, IndexError at 360 (mask[4])
\* for a cidr above 32 and at 371 (broadcast[-5]) for a cidr below -32,
\* else the list
CalcOutcome(address, cidr, supernet) ==
    IF supernet \notin DOMAIN supernet_mapping THEN <<"KeyError">>
    ELSE IF cidr > 32 \/ cidr < -32 THEN <<"IndexError">>
    ELSE <<"ok", calculate_link_ip_addresses(address, cidr, supernet)>>

Calculate ==
    /\ calc_out = NoResult
    /\ calc_out' = CalcOutcome(calc_in.address, calc_in.cidr, calc_in.supernet)
    /\ UNCHANGED <<calc_in, cmds, notAddr>>

NextAddr == Calculate

SpecAddr == InitAddr /\ [][NextAddr]_vars

----------------------------------------------------------------------------
(* Specification SpecAddrAny: the address planner applied to inputs that   *)
(* are no supernet of the mapping or no prefix length                      *)

AnyBaseAddrs == { <<192, 168, 1, 0>>, <<10, 9, 3, 130>>, <<10, 0, 0, 5>> }

AnyCidrInputs == {-40, -1, 24, 30, 33, 40}

AnySupernetInputs == {0, 26, 27, 30, 31, 32}

InitAddrAny ==
    /\ calc_in \in [address : AnyBaseAddrs, cidr : AnyCidrInputs,
                    supernet : AnySupernetInputs]
    /\ calc_out = NoResult
    /\ SeqIdle
    /\ L2Idle
    /\ L3Idle
    /\ cmds = <<>>

SpecAddrAny == InitAddrAny /\ [][NextAddr]_vars

----------------------------------------------------------------------------
(* Claims about the address planner *)

\* octet-wise order of two addresses (the prefix length is not compared)
IpLess(x, y) ==
    \E j \in 1..4 : x[j] < y[j] /\ \A h \in 1..(j - 1) : x[h] = y[h]

\* number of host bits of a /cidr block that fall in octet j (1..4)
HostBitsIn(cidr, j) ==
    LET h == (32 - cidr) - 8 * (4 - j)
    IN  IF h < 0 THEN 0 ELSE IF h > 8 THEN 8 ELSE h

BlockNetwork(address, cidr) ==
    [j \in 1..4 |-> address[j] - (address[j] % Pow2(HostBitsIn(cidr, j)))]

BlockBroadcast(address, cidr) ==
    [j \in 1..4 |-> BlockNetwork(address, cidr)[j] + Pow2(HostBitsIn(cidr, j)) - 1]

Returned == IF calc_out[1] = "ok" THEN calc_out[2] ELSE <<>>

\* C1: for every valid (base, cidr in 0..32, supernet in {27..30}) no returned
\* address is the network or broadcast address of base/cidr, and every
\* returned address lies inside base/cidr.
C1_InsideBlockNoNetNoBcast ==
    \A k \in 1..Len(Returned) :
        /\ IpLess(BlockNetwork(calc_in.address, calc_in.cidr), Returned[k])
        /\ IpLess(Returned[k], BlockBroadcast(calc_in.address, calc_in.cidr))

\* the usable addresses of a /24 carved into blocks of B = 2^(32-s):
\* a.b.c.(k*B+1) .. a.b.c.(k*B+B-2) for k = 0 .. 256/B-1, ascending
ExpectedSlash24(address, s) ==
    LET B == Pow2(32 - s)
        n == (256 \div B) * (B - 2)
    IN  [m \in 1..n |->
            <<address[1], address[2], address[3],
              ((m - 1) \div (B - 2)) * B + ((m - 1) % (B - 2)) + 1, s>>]

\* C2: for a base a.b.c.0 with cidr 24 the returned list is exactly the usable
\* addresses of every /s sub-block, ascending, without duplicates, each
\* suffixed /s; with supernet 30 it starts .1 .2 .5 .6 and holds no .3 or .4.
C2_Slash24Exact ==
    (calc_out[1] = "ok" /\ calc_in.cidr = 24 /\ calc_in.address[4] = 0) =>
        /\ Len(Returned) = Len(ExpectedSlash24(calc_in.address, calc_in.supernet))
        /\ \A m \in 1..Len(Returned) :
              Returned[m] = ExpectedSlash24(calc_in.address, calc_in.supernet)[m]
        /\ \A m, n \in 1..Len(Returned) : m < n =>
              IpLess(Returned[m], Returned[n])
        /\ calc_in.supernet = 30 =>
              /\ <<Returned[1][4], Returned[2][4], Returned[3][4], Returned[4][4]>>
                    = <<1, 2, 5, 6>>
              /\ \A m \in 1..Len(Returned) : Returned[m][4] \notin {3, 4}

C2_Witness ==
    /\ calc_out[1] = "ok"
    /\ calc_in.cidr = 24 /\ calc_in.address = <<192, 168, 1, 0>>
    /\ calc_in.supernet = 30

----------------------------------------------------------------------------
(* Sequential addressing: assign_loopback_ip (pn_ztp.py 524-568) and        *)
(* assign_inband_ip (pn_ztp.py 1016-1054)                                   *)

\* a variant of the guard that lets one name too many through
SeqFitsOffByOne(n, count) == n + count - 1 <= 256

\* "if len(vrouter_names) + vrouter_count - 1 <= 255"
SeqFits(n, count) == n + count - 1 <= 255

\* static_part + str(count), and for in-band + '/' + subnet
SeqIp(base, count, mode) ==
    IF mode = "loopback" THEN <<base[1], base[2], base[3], count>>
    ELSE <<base[1], base[2], base[3], count, base[5]>>

\* vrouter-loopback-interface-show ip <ip> format switch: the vrouters that
\* own a loopback interface with this ip
LoopbackOwners(ip) == {e[1] : e \in {x \in loopbacks : x[2] = ip}}

\* entry of the function up to the two guards on the length of the listing
SeqEnter ==
    /\ seq_pc = "call"
    /\ IF Len(seq_names) > 0
       THEN IF SeqFits(Len(seq_names), 1)
            THEN /\ seq_pc' = "loop"
                 /\ seq_count' = 1
                 /\ seq_output' = seq_output
            ELSE /\ seq_pc' = "returned"
                 /\ seq_count' = 1
                 /\ seq_output' = seq_output \cup {"Not enough ips"}
       ELSE /\ seq_pc' = "returned"
            /\ seq_count' = seq_count
            /\ seq_output' = seq_output \cup {"none present"}
    /\ UNCHANGED <<seq_mode, seq_base, seq_names, seq_idx, loopbacks,
                   inband_ip, cmds, notSeq>>

\* one iteration of "for vrouter in vrouter_names" of assign_loopback_ip
LoopbackStep ==
    /\ seq_pc = "loop" /\ seq_mode = "loopback"
    /\ seq_idx < Len(seq_names)
    /\ LET vrouter == seq_names[seq_idx + 1]
           ip == SeqIp(seq_base, seq_count, seq_mode)
       IN  IF vrouter \notin LoopbackOwners(ip)
           THEN /\ loopbacks' = loopbacks \cup {<<vrouter, ip>>}
                /\ cmds' = Append(cmds,
                             <<"vrouter-loopback-interface-add", vrouter, ip>>)
           ELSE UNCHANGED <<loopbacks, cmds>>
    /\ seq_count' = seq_count + 1
    /\ seq_idx' = seq_idx + 1
    /\ UNCHANGED <<seq_mode, seq_base, seq_names, seq_pc, seq_output,
                   inband_ip, notSeq>>

\* one iteration of "for switch in switch_names" of assign_inband_ip;
\* switch-setup-modify replaces the in-band ip of the switch
InbandStep ==
    /\ seq_pc = "loop" /\ seq_mode = "inband"
    /\ seq_idx < Len(seq_names)
    /\ LET switch == seq_names[seq_idx + 1]
           ip == SeqIp(seq_base, seq_count, seq_mode)
       IN  /\ inband_ip' = {e \in inband_ip : e[1] # switch} \cup {<<switch, ip>>}
           /\ cmds' = Append(cmds, <<"switch-setup-modify", switch, ip>>)
    /\ seq_count' = seq_count + 1
    /\ seq_idx' = seq_idx + 1
    /\ UNCHANGED <<seq_mode, seq_base, seq_names, seq_pc, seq_output,
                   loopbacks, notSeq>>

\* run_cli: a CLI call that yields only stderr ends the module through
\* exit_json(failed=True); any call of the function can end that way
SeqCliFail ==
    /\ seq_pc \in {"call", "loop"}
    /\ seq_pc = "loop" => seq_idx < Len(seq_names)
    /\ seq_pc' = "failed"
    /\ UNCHANGED <<seq_mode, seq_base, seq_names, seq_idx, seq_count,
                   seq_output, loopbacks, inband_ip, cmds, notSeq>>

\* the for loop is exhausted: return output
SeqReturn ==
    /\ seq_pc = "loop"
    /\ seq_idx = Len(seq_names)
    /\ seq_pc' = "returned"
    /\ UNCHANGED <<seq_mode, seq_base, seq_names, seq_idx, seq_count,
                   seq_output, loopbacks, inband_ip, cmds, notSeq>>

----------------------------------------------------------------------------
(* Specification SpecSeq: sequential addressing over bounded listings *)

SeqCounts == (0..MaxSmallCount) \cup {255, 256}

\* the listing of n names: the names 1..n, starting at name 1 + rot
Listing(n, rot) == [k \in 1..n |-> ((k - 1 + rot) % n) + 1]

SeqBases ==
    { <<"loopback", <<10, 0, 0, 0>>>>, <<"loopback", <<101, 101, 101, 0, 32>>>>,
      <<"inband", <<172, 16, 0, 0, 24>>>> }

InitSeq ==
    /\ AddrIdle
    /\ \E mb \in SeqBases, n \in SeqCounts, rot \in 0..1, prior \in 0..1 :
          /\ seq_mode = mb[1]
          /\ seq_base = mb[2]
          /\ seq_names = Listing(n, rot)
          \* loopbacks left by an earlier run that stopped after `prior` names
          /\ loopbacks = IF mb[1] = "loopback"
                         THEN {<<Listing(n, rot)[k], SeqIp(mb[2], k, mb[1])>> :
                                  k \in 1..(IF prior <= n THEN prior ELSE n)}
                         ELSE {}
    /\ inband_ip = {}
    /\ seq_pc = "call" /\ seq_idx = 0 /\ seq_count = 0 /\ seq_output = {}
    /\ L2Idle
    /\ L3Idle
    /\ cmds = <<>>

NextSeq == SeqEnter \/ LoopbackStep \/ InbandStep \/ SeqReturn \/ SeqCliFail

SpecSeq == InitSeq /\ [][NextSeq]_vars

C3_WitnessExhausted ==
    /\ seq_pc = "returned"
    /\ Len(seq_names) = 256
    /\ "Not enough ips" \in seq_output

----------------------------------------------------------------------------
(* The fabric as the CLI shows it *)

\* A switch name is the pair <<first five characters, rest>>: node[5:] is
\* the rest.
Switch(rest) == <<"auto-", rest>>

Slice5(node) == node[2]

Spines == {Switch("spine1"), Switch("spine2")}

Leaves == {Switch("leaf1"), Switch("leaf2"), Switch("leaf3"), Switch("leaf4")}

\* systems that speak LLDP but are no members of the fabric
Hosts == {Switch("host1"), Switch("host2")}

\* fabric-node-show format name
nodes_in_fabric == Spines \cup Leaves

\* lldp-show format sys-name on a switch: the system at the far end of each
\* of its links
LldpSysNames(switch) ==
    {l.b : l \in {x \in links : x.a = switch}}
      \cup {l.a : l \in {x \in links : x.b = switch}}

\* a variant in which the order changes from one run to the next, as it
\* does under hash randomization
ListOfSetPerRun(S) ==
    IF replay.on
    THEN SelectSeq([k \in 1..Len(hash_order) |->
                       hash_order[Len(hash_order) + 1 - k]],
                   LAMBDA x : x \in S)
    ELSE SelectSeq(hash_order, LAMBDA x : x \in S)

\* list(set(names)): the names without duplicates, in hash order
ListOfSet(S) == SelectSeq(hash_order, LAMBDA x : x \in S)

\* cluster-show format name / cluster-node-1 / cluster-node-2
ClusterNames == {c.name : c \in clusters}

ClusterNode1 == {c.node1 : c \in clusters}

ClusterNode2 == {c.node2 : c \in clusters}

\* switch <switch> trunk-show format name
TrunkNames(switch) == {t.name : t \in {x \in trunks : x.switch = switch}}

\* switch <switch> vlag-show format name
VlagNames(switch) == {v.name : v \in {x \in vlags : x.switch = switch}}

\* get_ports: switch <switch> port-show hostname <peer_switch> format port
get_ports(switch, peer_switch) ==
    {l.aport : l \in {x \in links : x.a = switch /\ x.b = peer_switch}}
      \cup {l.bport : l \in {x \in links : x.b = switch /\ x.a = peer_switch}}

Range(seq) == {seq[k] : k \in 1..Len(seq)}

\* list.remove(x): the list without the first occurrence of x
RECURSIVE ListRemove(_, _)
ListRemove(list, x) ==
    IF list = <<>> THEN <<>>
    ELSE IF Head(list) = x THEN Tail(list)
    ELSE <<Head(list)>> \o ListRemove(Tail(list), x)

----------------------------------------------------------------------------
(* Layer 2: configure_auto_vlag, pn_ztp.py 641-910 *)

\* leaf_no_cluster: the leaves of the list that are in no cluster
leaf_no_cluster(leaves) ==
    SelectSeq(leaves,
              LAMBDA leaf : leaf \notin ClusterNode1 /\ leaf \notin ClusterNode2)

\* "for system in system_names: if system not in nodes_in_fabric:
\* system_names.remove(system)": the loop walks the list by index while the
\* list shrinks under it, so the element after a removed one is not visited
RECURSIVE FilterFabric(_, _)
FilterFabric(system_names, idx) ==
    IF idx > Len(system_names) THEN system_names
    ELSE IF system_names[idx] \notin nodes_in_fabric
         THEN FilterFabric(ListRemove(system_names, system_names[idx]), idx + 1)
         ELSE FilterFabric(system_names, idx + 1)

\* system_names for a popped leaf: create_leaf_cluster_vlag drops the names
\* that are not in the fabric, leaf_cluster_formation of pn_ebgp keeps them
CandidateList(node) ==
    IF kind = "ztp" THEN FilterFabric(ListOfSet(LldpSysNames(node)), 1)
    ELSE ListOfSet(LldpSysNames(node))

\* a variant that goes on to the end of system_names and keeps the last
\* node2 that qualifies
LastCandidate(system_names, node_count, worklist) ==
    LET ok == {k \in 1..Len(system_names) :
                  /\ system_names[k] \notin Range(spine_list)
                  /\ system_names[k] \in Range(worklist)}
    IN  IF ok = {} THEN <<>>
        ELSE system_names[CHOOSE k \in ok : \A h \in ok : h <= k]

\* a variant that looks at the first name of system_names only
FirstNameOnly(system_names, node_count, worklist) ==
    IF system_names = <<>> THEN <<>>
    ELSE IF system_names[1] \notin Range(spine_list)
            /\ system_names[1] \in Range(worklist)
         THEN system_names[1]
         ELSE <<>>

\* the while loop over system_names: the first node2 that is no spine and
\* still in the worklist; <<>> when the loop ends without one
RECURSIVE FirstCandidate(_, _, _)
FirstCandidate(system_names, node_count, worklist) ==
    IF node_count >= Len(system_names) THEN <<>>
    ELSE LET cand == system_names[node_count + 1]
         IN  IF cand \notin Range(spine_list) /\ cand \in Range(worklist)
             THEN cand
             ELSE FirstCandidate(system_names, node_count + 1, worklist)

\* variants that leave the destinations out of the name
TrunkNameNoDest(node, dest_list) == <<Slice5(node), "-to-">>

SpineVlagNameNoDest(spine1, spine2, dests) == <<Slice5(spine1), spine2, "-to-">>

\* names built by string concatenation
ClusterName(n1, n2) == <<n1, "-to-", n2, "-cluster">>

TrunkName(node, dest_list) == <<Slice5(node), "-to-", dest_list>>

LeafVlagName(n1, n2) == <<Slice5(n1), n2, "-to-", "spine">>

SpineVlagName(spine1, spine2, dests) == <<Slice5(spine1), spine2, "-to-", dests>>

\* create_cluster: <<clusters, cmds>> after the call
ClusterCreate(switch, name, n1, n2) ==
    IF name \notin ClusterNames
    THEN <<clusters \cup {[name |-> name, node1 |-> n1, node2 |-> n2]},
           Append(cmds, <<"cluster-create", switch, name, n1, n2>>)>>
    ELSE <<clusters, cmds>>

\* src_ports of create_trunk_vlag
SrcPorts(node, dest_list) ==
    UNION {get_ports(node, dest_list[k]) : k \in 1..Len(dest_list)}

\* a variant of create_trunk that does not look at the existing names
TrunkCreateNoCheck(node, dest_list) ==
    <<trunks \cup {[switch |-> node, name |-> TrunkName(node, dest_list),
                    ports |-> SrcPorts(node, dest_list)]},
      Append(cmds, <<"trunk-create", node, TrunkName(node, dest_list)>>)>>

\* a variant of create_trunk_vlag that returns the name and creates nothing
TrunkCreateSkipped(node, dest_list) == <<trunks, cmds>>

\* create_trunk_vlag and create_trunk: <<trunks, cmds>> after the call; the
\* name returned is TrunkName(node, dest_list)
TrunkCreate(node, dest_list) ==
    IF TrunkName(node, dest_list) \notin TrunkNames(node)
    THEN <<trunks \cup {[switch |-> node, name |-> TrunkName(node, dest_list),
                         ports |-> SrcPorts(node, dest_list)]},
           Append(cmds, <<"trunk-create", node, TrunkName(node, dest_list)>>)>>
    ELSE <<trunks, cmds>>

\* create_vlag: <<vlags, cmds>> after the call
VlagCreate(switch, name, peer_switch, port, peer_port) ==
    IF name \notin VlagNames(switch)
    THEN <<vlags \cup {[switch |-> switch, name |-> name, port |-> port,
                        peer_switch |-> peer_switch, peer_port |-> peer_port]},
           Append(cmds, <<"vlag-create", switch, name>>)>>
    ELSE <<vlags, cmds>>

L2Locals == <<non_cluster_leaf, node1, node2, name1, name2, nc_idx>>

\* no layer-2 run is in progress
L2Stopped == l2_pc \in {"idle", "done", "failed", "crashed", "exited"}

\* main starts a run (pn_run_l2_l3 with pn_fabric_type layer2) on the fabric
\* as the previous run left it
StartL2With(spines, leaves) ==
    /\ L2Stopped /\ l3_pc = "idle"
    /\ run_no < MaxRuns
    /\ run_no' = run_no + 1
    /\ prev_run' = [leaf_list |-> leaf_list, result |-> l2_pc, kind |-> kind,
                     clusters |-> clusters, trunks |-> trunks,
                     vlags |-> vlags]
    /\ kind' = "ztp" /\ replay' = NoReplay
    /\ spine_list' = spines
    /\ leaf_list' = leaves
    /\ non_cluster_leaf' = <<>> /\ node1' = <<>> /\ node2' = <<>>
    /\ name1' = <<>> /\ name2' = <<>> /\ nc_idx' = 0
    /\ cmds' = <<>>
    /\ l2_pc' = "spine_cluster"
    /\ UNCHANGED <<topoVars, fabricL2Vars, notL2>>

\* a run with the two spines as pn_spine_list
StartL2(leaves) == StartL2With(<<Switch("spine1"), Switch("spine2")>>, leaves)

\* main of pn_ebgp reaches create_leaf_cluster (501, 451-463) on the fabric
\* as the previous run left it
StartLeafCluster(leaves) ==
    /\ L2Stopped
    /\ run_no < MaxRuns
    /\ run_no' = run_no + 1
    /\ prev_run' = [leaf_list |-> leaf_list, result |-> l2_pc, kind |-> kind,
                     clusters |-> clusters, trunks |-> trunks,
                     vlags |-> vlags]
    /\ kind' = "ebgp" /\ replay' = NoReplay
    /\ spine_list' = <<Switch("spine1"), Switch("spine2")>>
    /\ leaf_list' = leaves
    /\ non_cluster_leaf' = <<>> /\ node1' = <<>> /\ node2' = <<>>
    /\ name1' = <<>> /\ name2' = <<>> /\ nc_idx' = 0
    /\ cmds' = <<>>
    /\ l2_pc' = "leaf_no_cluster"
    /\ UNCHANGED <<topoVars, fabricL2Vars, notL2>>

\* the finished run is started once more with the parameters it had, on a
\* fabric put back to what that run found: same clusters, trunks and vlags,
\* same links
Replay ==
    /\ l2_pc = "done"
    /\ ~replay.on
    /\ replay' = [on |-> TRUE, clusters |-> clusters]
    /\ clusters' = prev_run.clusters
    /\ trunks' = prev_run.trunks
    /\ vlags' = prev_run.vlags
    /\ non_cluster_leaf' = <<>> /\ node1' = <<>> /\ node2' = <<>>
    /\ name1' = <<>> /\ name2' = <<>> /\ nc_idx' = 0
    /\ cmds' = <<>>
    /\ l2_pc' = IF kind = "ztp" THEN "spine_cluster" ELSE "leaf_no_cluster"
    /\ UNCHANGED <<topoVars, run_no, spine_list, leaf_list, prev_run, kind,
                   notL2>>

\* configure_auto_vlag 899-903: the spine pair is clustered; with fewer
\* than two spines spine_list[0] or spine_list[1] raises IndexError
SpineCluster ==
    /\ l2_pc = "spine_cluster"
    /\ IF Len(spine_list) < 2
       THEN /\ l2_pc' = "crashed"
            /\ UNCHANGED <<clusters, cmds>>
       ELSE /\ LET r == ClusterCreate(spine_list[1], <<"spine-cluster">>,
                                      spine_list[1], spine_list[2])
               IN  clusters' = r[1] /\ cmds' = r[2]
            /\ l2_pc' = "leaf_no_cluster"
    /\ UNCHANGED <<topoVars, trunks, vlags, runVars, L2Locals, notL2>>

\* configure_auto_vlag 904: the worklist of leaves in no cluster
LeafNoCluster ==
    /\ l2_pc = "leaf_no_cluster"
    /\ non_cluster_leaf' = leaf_no_cluster(leaf_list)
    /\ l2_pc' = "pair"
    /\ UNCHANGED <<topoVars, fabricL2Vars, cmds, runVars, node1, node2, name1,
                   name2, nc_idx, notL2>>

\* a variant that puts a leaf without candidate back at the head of the
\* worklist
PairPopPutBack ==
    /\ l2_pc = "pair"
    /\ IF Len(non_cluster_leaf) = 0
       THEN /\ l2_pc' = IF kind = "ztp" THEN "leaf_no_cluster2" ELSE "done"
            /\ UNCHANGED <<non_cluster_leaf, node1, node2>>
       ELSE LET popped == non_cluster_leaf[1]
                rest == ListRemove(non_cluster_leaf, popped)
                cand == FirstCandidate(CandidateList(popped), 0, rest)
            IN  /\ node1' = popped
                /\ non_cluster_leaf' = IF cand = <<>> THEN non_cluster_leaf
                                       ELSE rest
                /\ node2' = cand
                /\ l2_pc' = IF cand = <<>> THEN "pair" ELSE "pair_cluster"
    /\ UNCHANGED <<topoVars, fabricL2Vars, cmds, runVars, name1, name2,
                   nc_idx, notL2>>

\* create_leaf_cluster_vlag 805-835, leaf_cluster_formation 415-434: one
\* turn of the outer loop up to the choice of node2; with an empty worklist
\* the function returns, and create_leaf_cluster of pn_ebgp with it
PairPop ==
    /\ l2_pc = "pair"
    /\ IF Len(non_cluster_leaf) = 0
       THEN /\ l2_pc' = IF kind = "ztp" THEN "leaf_no_cluster2" ELSE "done"
            /\ UNCHANGED <<non_cluster_leaf, node1, node2>>
       ELSE LET popped == non_cluster_leaf[1]
                rest == ListRemove(non_cluster_leaf, popped)
                cand == FirstCandidate(CandidateList(popped), 0, rest)
            IN  /\ node1' = popped
                /\ non_cluster_leaf' = rest
                /\ node2' = cand
                /\ l2_pc' = IF cand = <<>> THEN "pair" ELSE "pair_cluster"
    /\ UNCHANGED <<topoVars, fabricL2Vars, cmds, runVars, name1, name2,
                   nc_idx, notL2>>

\* a variant that goes on to the next leaf of the worklist right after the
\* cluster is created, as leaf_cluster_formation of pn_ebgp does
PairClusterOnly ==
    /\ l2_pc = "pair_cluster"
    /\ LET r == ClusterCreate(node2, ClusterName(node1, node2), node1, node2)
       IN  clusters' = r[1] /\ cmds' = r[2]
    /\ non_cluster_leaf' = ListRemove(non_cluster_leaf, node2)
    /\ l2_pc' = "pair"
    /\ UNCHANGED <<topoVars, trunks, vlags, runVars, node1, node2, name1,
                   name2, nc_idx, notL2>>

\* create_leaf_cluster_vlag 836-840, leaf_cluster_formation 435-440
PairCluster ==
    /\ l2_pc = "pair_cluster"
    /\ LET r == ClusterCreate(node2, ClusterName(node1, node2), node1, node2)
       IN  clusters' = r[1] /\ cmds' = r[2]
    /\ non_cluster_leaf' = ListRemove(non_cluster_leaf, node2)
    /\ l2_pc' = IF kind = "ztp" THEN "leaf_trunk1" ELSE "pair"
    /\ UNCHANGED <<topoVars, trunks, vlags, runVars, node1, node2, name1,
                   name2, nc_idx, notL2>>

\* create_leaf_cluster_vlag 841-842 and 852-853: the four create_trunk_vlag
\* calls of a pair, one per step
PairTrunk ==
    /\ l2_pc \in {"leaf_trunk1", "leaf_trunk2", "spine_trunk1", "spine_trunk2"}
    /\ LET node == CASE l2_pc = "leaf_trunk1" -> node1
                     [] l2_pc = "leaf_trunk2" -> node2
                     [] l2_pc = "spine_trunk1" -> spine_list[1]
                     [] l2_pc = "spine_trunk2" -> spine_list[2]
           dest == IF l2_pc \in {"leaf_trunk1", "leaf_trunk2"}
                   THEN spine_list ELSE <<node1, node2>>
           r == TrunkCreate(node, dest)
       IN  /\ trunks' = r[1] /\ cmds' = r[2]
           /\ IF l2_pc \in {"leaf_trunk1", "spine_trunk1"}
              THEN name1' = TrunkName(node, dest) /\ name2' = name2
              ELSE name2' = TrunkName(node, dest) /\ name1' = name1
    /\ l2_pc' = CASE l2_pc = "leaf_trunk1" -> "leaf_trunk2"
                  [] l2_pc = "leaf_trunk2" -> "leaf_vlag"
                  [] l2_pc = "spine_trunk1" -> "spine_trunk2"
                  [] l2_pc = "spine_trunk2" -> "spine_vlag"
    /\ UNCHANGED <<topoVars, clusters, vlags, runVars, non_cluster_leaf,
                   node1, node2, nc_idx, notL2>>

\* create_leaf_cluster_vlag 844-847: the vlag of the leaf pair
PairLeafVlag ==
    /\ l2_pc = "leaf_vlag"
    /\ LET r == VlagCreate(node1, LeafVlagName(node1, node2), node2, name1, name2)
       IN  vlags' = r[1] /\ cmds' = r[2]
    /\ l2_pc' = "spine_trunk1"
    /\ UNCHANGED <<topoVars, clusters, trunks, runVars, L2Locals, notL2>>

\* create_leaf_cluster_vlag 854-858: the reciprocal vlag of the spine pair;
\* flag1 ends the inner loop
PairSpineVlag ==
    /\ l2_pc = "spine_vlag"
    /\ LET r == VlagCreate(spine_list[1],
                           SpineVlagName(spine_list[1], spine_list[2],
                                         <<node1, node2>>),
                           spine_list[2], name1, name2)
       IN  vlags' = r[1] /\ cmds' = r[2]
    /\ l2_pc' = "pair"
    /\ UNCHANGED <<topoVars, clusters, trunks, runVars, L2Locals, notL2>>

\* configure_auto_vlag 907: the leaves still in no cluster
LeafNoCluster2 ==
    /\ l2_pc = "leaf_no_cluster2"
    /\ non_cluster_leaf' = leaf_no_cluster(leaf_list)
    /\ nc_idx' = 0
    /\ l2_pc' = IF leaf_no_cluster(leaf_list) = <<>> THEN "done" ELSE "nc_leaf_trunk"
    /\ UNCHANGED <<topoVars, fabricL2Vars, cmds, runVars, node1, node2, name1,
                   name2, notL2>>

\* create_nonclusterleaf_vlag 878, 882, 883: the three create_trunk_vlag
\* calls for one unclustered leaf, one per step
NcTrunk ==
    /\ l2_pc \in {"nc_leaf_trunk", "nc_spine_trunk1", "nc_spine_trunk2"}
    /\ LET leaf == non_cluster_leaf[nc_idx + 1]
           node == CASE l2_pc = "nc_leaf_trunk" -> leaf
                     [] l2_pc = "nc_spine_trunk1" -> spine_list[1]
                     [] l2_pc = "nc_spine_trunk2" -> spine_list[2]
           dest == IF l2_pc = "nc_leaf_trunk" THEN spine_list ELSE <<leaf>>
           r == TrunkCreate(node, dest)
       IN  /\ trunks' = r[1] /\ cmds' = r[2]
           /\ name1' = IF l2_pc = "nc_spine_trunk1"
                       THEN TrunkName(node, dest) ELSE name1
           /\ name2' = IF l2_pc = "nc_spine_trunk2"
                       THEN TrunkName(node, dest) ELSE name2
    /\ l2_pc' = CASE l2_pc = "nc_leaf_trunk" -> "nc_spine_trunk1"
                  [] l2_pc = "nc_spine_trunk1" -> "nc_spine_trunk2"
                  [] l2_pc = "nc_spine_trunk2" -> "nc_vlag"
    /\ UNCHANGED <<topoVars, clusters, vlags, runVars, non_cluster_leaf,
                   node1, node2, nc_idx, notL2>>

\* create_nonclusterleaf_vlag 885-887, and the return of configure_auto_vlag
\* after the last leaf
NcVlag ==
    /\ l2_pc = "nc_vlag"
    /\ LET leaf == non_cluster_leaf[nc_idx + 1]
           r == VlagCreate(spine_list[1],
                           SpineVlagName(spine_list[1], spine_list[2], <<leaf>>),
                           spine_list[2], name1, name2)
       IN  vlags' = r[1] /\ cmds' = r[2]
    /\ nc_idx' = nc_idx + 1
    /\ l2_pc' = IF nc_idx + 1 < Len(non_cluster_leaf)
                THEN "nc_leaf_trunk" ELSE "done"
    /\ UNCHANGED <<topoVars, clusters, trunks, runVars, non_cluster_leaf,
                   node1, node2, name1, name2, notL2>>

L2Running ==
    l2_pc \in {"spine_cluster", "leaf_no_cluster", "pair", "pair_cluster",
               "leaf_trunk1", "leaf_trunk2", "leaf_vlag", "spine_trunk1",
               "spine_trunk2", "spine_vlag", "leaf_no_cluster2",
               "nc_leaf_trunk", "nc_spine_trunk1", "nc_spine_trunk2", "nc_vlag"}

\* run_cli 169-176: the next CLI call yields only stderr, the module exits
\* with failed=True and what was created stays
L2CliFail ==
    /\ L2Running
    /\ l2_pc' = "failed"
    /\ UNCHANGED <<topoVars, fabricL2Vars, cmds, runVars, L2Locals, notL2>>

----------------------------------------------------------------------------
(* Specification SpecL2: layer-2 runs on bounded fabrics *)

Link(a, aport, b, bport) == [a |-> a, aport |-> aport, b |-> b, bport |-> bport]

\* every leaf has one link to each spine, leaf1 a second one to spine1;
\* leaf3 sees two hosts and leaf1 one
BaseLinks ==
    { Link(Switch("leaf1"), 1, Switch("spine1"), 11),
      Link(Switch("leaf1"), 2, Switch("spine2"), 11),
      Link(Switch("leaf1"), 3, Switch("spine1"), 15),
      Link(Switch("leaf2"), 1, Switch("spine1"), 12),
      Link(Switch("leaf2"), 2, Switch("spine2"), 12),
      Link(Switch("leaf3"), 1, Switch("spine1"), 13),
      Link(Switch("leaf3"), 2, Switch("spine2"), 13),
      Link(Switch("leaf4"), 1, Switch("spine1"), 14),
      Link(Switch("leaf4"), 2, Switch("spine2"), 14),
      Link(Switch("leaf3"), 31, Switch("host1"), 0),
      Link(Switch("leaf3"), 32, Switch("host2"), 0),
      Link(Switch("leaf1"), 31, Switch("host1"), 0) }

\* the link between leaf i and leaf j
LeafLink(i, j) ==
    Link(Switch(<<"leaf1", "leaf2", "leaf3", "leaf4">>[i]), 20 + j,
         Switch(<<"leaf1", "leaf2", "leaf3", "leaf4">>[j]), 20 + i)

\* the sets of links between leaves a fabric may have: none, one pair, two
\* pairs, a chain, a chain of four, a triangle with a tail
LeafLeafLinkSets ==
    { {},
      {LeafLink(1, 2)},
      {LeafLink(1, 2), LeafLink(3, 4)},
      {LeafLink(1, 2), LeafLink(2, 3)},
      {LeafLink(1, 2), LeafLink(2, 3), LeafLink(3, 4)},
      {LeafLink(1, 2), LeafLink(2, 3), LeafLink(1, 3), LeafLink(3, 4)} }

HashOrders ==
    { <<Switch("host1"), Switch("host2"), Switch("leaf1"), Switch("leaf2"),
        Switch("leaf3"), Switch("leaf4"), Switch("spine1"), Switch("spine2")>>,
      <<Switch("spine2"), Switch("leaf4"), Switch("leaf3"), Switch("host2"),
        Switch("leaf2"), Switch("spine1"), Switch("host1"), Switch("leaf1")>>,
      <<Switch("leaf2"), Switch("spine1"), Switch("leaf4"), Switch("leaf1"),
        Switch("host1"), Switch("host2"), Switch("leaf3"), Switch("spine2")>> }

\* the values of pn_leaf_list: orderings of the leaves, a list that leaves
\* one out and a list that names a leaf twice
LeafLists ==
    { <<Switch("leaf1"), Switch("leaf2"), Switch("leaf3"), Switch("leaf4")>>,
      <<Switch("leaf4"), Switch("leaf3"), Switch("leaf2"), Switch("leaf1")>>,
      <<Switch("leaf2"), Switch("leaf3"), Switch("leaf1"), Switch("leaf4")>>,
      <<Switch("leaf1"), Switch("leaf2"), Switch("leaf3")>>,
      <<Switch("leaf1"), Switch("leaf2"), Switch("leaf1"), Switch("leaf3")>> }

InitL2 ==
    /\ AddrIdle
    /\ SeqIdle
    /\ \E ll \in LeafLeafLinkSets : links = BaseLinks \cup ll
    /\ hash_order \in HashOrders
    /\ clusters = {} /\ trunks = {} /\ vlags = {}
    /\ RunIdle
    /\ L3Idle
    /\ cmds = <<>>

NextL2 ==
    \/ \E leaves \in LeafLists : StartL2(leaves)
    \/ SpineCluster
    \/ LeafNoCluster
    \/ PairPop
    \/ PairCluster
    \/ PairTrunk
    \/ PairLeafVlag
    \/ PairSpineVlag
    \/ LeafNoCluster2
    \/ NcTrunk
    \/ NcVlag
    \/ L2CliFail

SpecL2 == InitL2 /\ [][NextL2]_vars

----------------------------------------------------------------------------
(* Specification SpecPair: runs of pn_ztp and of pn_ebgp, and a finished  *)
(* run done once more from the fabric state it started in                 *)

PairLeafLists ==
    { <<Switch("leaf1"), Switch("leaf2"), Switch("leaf3"), Switch("leaf4")>>,
      <<Switch("leaf3"), Switch("leaf2"), Switch("leaf4"), Switch("leaf1")>>,
      <<Switch("leaf1"), Switch("leaf2"), Switch("leaf1"), Switch("leaf3")>> }

NextPair ==
    \/ \E leaves \in PairLeafLists : StartL2(leaves)
    \/ \E leaves \in PairLeafLists : StartLeafCluster(leaves)
    \/ Replay
    \/ SpineCluster
    \/ LeafNoCluster
    \/ PairPop
    \/ PairCluster
    \/ PairTrunk
    \/ PairLeafVlag
    \/ PairSpineVlag
    \/ LeafNoCluster2
    \/ NcTrunk
    \/ NcVlag
    \/ L2CliFail

SpecPair == InitL2 /\ [][NextPair]_vars

----------------------------------------------------------------------------
(* Claims about layer-2 runs *)

\* the current pn_ztp run follows a pn_ztp run of the given result with the
\* same leaf list
RerunAfter(result) ==
    /\ run_no >= 2
    /\ l2_pc # "idle"
    /\ kind = "ztp" /\ prev_run.kind = "ztp"
    /\ ~replay.on
    /\ prev_run.result = result
    /\ prev_run.leaf_list = leaf_list

\* C4: a second layer-2 run with identical inputs, after a completed run and
\* with the topology unchanged, issues no create command and leaves exactly
\* the clusters, trunks (names, members, ports) and vlags of the single run.
C4_SecondRunNoOp ==
    RerunAfter("done") =>
        /\ cmds = <<>>
        /\ clusters = prev_run.clusters
        /\ trunks = prev_run.trunks
        /\ vlags = prev_run.vlags

C4_Witness ==
    /\ RerunAfter("done")
    /\ l2_pc = "done"
    /\ \E c \in clusters : c.node1 \in Leaves
    /\ \E t \in trunks : Cardinality(t.ports) >= 2
    /\ \E v \in vlags : v.switch \in Leaves
    /\ \E k \in 1..Len(leaf_list) :
          leaf_list[k] \notin ClusterNode1 \cup ClusterNode2

\* the leaf clusters that the previous run left without their leaf-side vlag
ClustersLeftWithoutVlag ==
    {c \in prev_run.clusters :
        /\ c.node1 \in Leaves
        /\ ~\E v \in prev_run.vlags :
              v.switch = c.node1 /\ v.peer_switch = c.node2}

\* the pair of a cluster has its two leaf trunks, its leaf-side vlag and the
\* reciprocal spine-side vlag
PairBuilt(c) ==
    /\ \E v \in vlags :
          /\ v.switch = c.node1 /\ v.peer_switch = c.node2
          /\ v.port \in TrunkNames(c.node1)
          /\ v.peer_port \in TrunkNames(c.node2)
    /\ \E v \in vlags :
          /\ v.switch = spine_list[1] /\ v.peer_switch = spine_list[2]
          /\ \E t \in trunks :
                /\ t.switch = spine_list[1] /\ t.name = v.port
                /\ t.ports = get_ports(spine_list[1], c.node1)
                               \cup get_ports(spine_list[1], c.node2)

\* C5: a layer-2 re-run on a fabric where a prior partial run created the
\* cluster of a leaf pair but not its trunks and vlags creates no second
\* cluster for the pair and has built the pair's trunks and vlags when the
\* run ends.
C5_RerunCompletesPair ==
    (RerunAfter("failed") /\ l2_pc = "done") =>
        \A c \in ClustersLeftWithoutVlag :
            /\ Cardinality({d \in clusters :
                   {d.node1, d.node2} \cap {c.node1, c.node2} # {}}) = 1
            /\ PairBuilt(c)

\* the clusters the current run has created
NewClusters == clusters \ prev_run.clusters

C7_AtMostOneCluster ==
    \A sw \in nodes_in_fabric :
        Cardinality({c \in clusters : sw \in {c.node1, c.node2}}) <= 1

\* the positions in the neighbor list of leaf (lldp sys-names without
\* duplicates) of the switches that are no spine and are in the worklist
Qualifying(leaf, worklist) ==
    {k \in 1..Len(ListOfSet(LldpSysNames(leaf))) :
        /\ ListOfSet(LldpSysNames(leaf))[k] \notin Range(spine_list)
        /\ ListOfSet(LldpSysNames(leaf))[k] \in Range(worklist)}

\* the step that takes a leaf from the head of the worklist, and the step
\* that clusters it with the switch picked for it
LeafPopped ==
    /\ l2_pc = "pair" /\ non_cluster_leaf # <<>>
    /\ l2_pc' \in {"pair", "pair_cluster"}

LeafClustered == l2_pc = "pair_cluster" /\ l2_pc' \in {"leaf_trunk1", "pair"}

\* the popped leaf is the head of the worklist, and the switch picked for
\* it is the first of its neighbor list that qualifies
PopRule ==
    LeafPopped =>
        /\ node1' = Head(non_cluster_leaf)
        /\ non_cluster_leaf' = Tail(non_cluster_leaf)
        /\ clusters' = clusters
        /\ LET q == Qualifying(node1', non_cluster_leaf')
           IN  IF q = {} THEN l2_pc' = "pair"
               ELSE /\ l2_pc' = "pair_cluster"
                    /\ node2' = ListOfSet(LldpSysNames(node1'))[
                                    CHOOSE k \in q : \A h \in q : k <= h]

\* one cluster is created, of the popped leaf and the switch picked, which
\* is adjacent to it, no spine and in the worklist
ClusterRule ==
    LeafClustered =>
        /\ clusters' \ clusters =
              {[name |-> ClusterName(node1, node2), node1 |-> node1,
                node2 |-> node2]}
        /\ node2 \in LldpSysNames(node1)
        /\ node2 \notin Range(spine_list)
        /\ node2 \in Range(non_cluster_leaf)

\* leaf clusters are created by no other step
OnlyWhenClustered ==
    (\E c \in clusters' \ clusters : c.node1 \in Leaves) => LeafClustered

CreatedVlags == vlags' \ vlags

\* C11: whenever a vlag is created in a layer-2 run, the local trunk it
\* names already exists on the vlag's local switch and the peer trunk it
\* names already exists on the vlag's peer switch.
C11_VlagTrunksExist ==
    [][\A v \in CreatedVlags :
          /\ \E t \in trunks : t.switch = v.switch /\ t.name = v.port
          /\ \E t \in trunks : t.switch = v.peer_switch /\ t.name = v.peer_port]_vars

\* a run has created the vlag of a leaf pair, the reciprocal vlag of the
\* spines and the vlag of the spines toward a leaf without cluster
C11_Witness ==
    /\ l2_pc = "done" /\ kind = "ztp"
    /\ \E i, j, k \in 1..Len(cmds) :
          /\ i < j /\ j < k
          /\ cmds[i][1] = "vlag-create" /\ cmds[i][2] \in Leaves
          /\ cmds[j][1] = "vlag-create" /\ cmds[j][2] \in Spines
          /\ cmds[k][1] = "vlag-create" /\ cmds[k][2] \in Spines

\* the ports of a switch that face one of the switches of dests
PortsToward(switch, dests) == UNION {get_ports(switch, d) : d \in dests}

\* switch has a vlag with peer over a trunk of its own with ports p and a
\* trunk of the peer with ports q
VlagOver(switch, p, peer, q) ==
    \E v \in vlags : \E t \in trunks : \E u \in trunks :
        /\ v.switch = switch /\ v.peer_switch = peer
        /\ t.switch = switch /\ t.name = v.port /\ t.ports = p
        /\ u.switch = peer /\ u.name = v.peer_port /\ u.ports = q

\* a layer-2 run of pn_ztp has completed
L2Completed == l2_pc = "done" /\ kind = "ztp"

\* the leaves of the leaf list that are in no cluster
Unclustered ==
    {l \in Range(leaf_list) : l \notin ClusterNode1 \cup ClusterNode2}

\* C18: when a layer-2 run completes, every leaf of the leaf list that is
\* in no cluster after pairing has a trunk toward the spines, spine1 and
\* spine2 each have a trunk toward that leaf, and spine1 has a vlag with
\* peer spine2 over those two spine trunks.
C18_UnclusteredLeafHandled ==
    L2Completed =>
        \A leaf \in Unclustered :
            /\ \E t \in trunks :
                  /\ t.switch = leaf
                  /\ t.ports = PortsToward(leaf, Range(spine_list))
            /\ VlagOver(spine_list[1], PortsToward(spine_list[1], {leaf}),
                        spine_list[2], PortsToward(spine_list[2], {leaf}))

\* a completed run has left two leaves without cluster next to a leaf pair
C18_Witness ==
    /\ L2Completed
    /\ Cardinality(Unclustered) >= 2
    /\ \E c \in clusters : c.node1 \in Leaves
    /\ \E k \in 1..Len(cmds) : cmds[k][1] = "vlag-create"

\* the leaf clusters the current run has created
NewLeafClusters == {c \in NewClusters : c.node1 \in Range(leaf_list)}

\* C19: for every leaf cluster (node1, node2) created by pairing in a
\* layer-2 run, at the end of that run there is a vlag on node1 with peer
\* node2 over each member's trunk toward the spines, and a reciprocal vlag
\* on spine1 with peer spine2 over each spine's trunk toward {node1, node2}.
C19_PairVlagsBuilt ==
    L2Completed =>
        \A c \in NewLeafClusters :
            /\ VlagOver(c.node1, PortsToward(c.node1, Range(spine_list)),
                        c.node2, PortsToward(c.node2, Range(spine_list)))
            /\ VlagOver(spine_list[1],
                        PortsToward(spine_list[1], {c.node1, c.node2}),
                        spine_list[2],
                        PortsToward(spine_list[2], {c.node1, c.node2}))

\* a completed run has created two leaf clusters
C19_Witness ==
    /\ L2Completed
    /\ Cardinality(NewLeafClusters) >= 2

\* the commands of a run by the phase that issues them: the cluster of the
\* spines, the cluster of a leaf pair, the vlags of a pair and the trunks of
\* the spines toward it, the vlag and the spine trunks for a leaf without
\* cluster. The trunk of a leaf toward the spines is made in either of the
\* last two and belongs to none of the classes.
IsSpineClusterCmd(c) == c[1] = "cluster-create" /\ c[3] = <<"spine-cluster">>

IsLeafClusterCmd(c) == c[1] = "cluster-create" /\ c[3] # <<"spine-cluster">>

IsPairBuildCmd(c) ==
    \/ c[1] = "vlag-create" /\ c[2] \notin Range(spine_list)
    \/ c[1] = "vlag-create" /\ c[2] \in Range(spine_list) /\ Len(c[3][4]) = 2
    \/ c[1] = "trunk-create" /\ c[2] \in Range(spine_list) /\ Len(c[3][3]) = 2

IsUnclusteredCmd(c) ==
    \/ c[1] = "vlag-create" /\ c[2] \in Range(spine_list) /\ Len(c[3][4]) = 1
    \/ c[1] = "trunk-create" /\ c[2] \in Range(spine_list) /\ Len(c[3][3]) = 1

\* the reciprocal vlag of the spines for the pair of a cluster-create
SpineVlagCmdOf(c) ==
    <<"vlag-create", spine_list[1],
      SpineVlagName(spine_list[1], spine_list[2], <<c[4], c[5]>>)>>

\* the pair a trunk or vlag command of the pair phase is made for
PairOfCmd(c) ==
    IF c[1] = "trunk-create" THEN c[3][3]
    ELSE IF c[2] \in Range(spine_list) THEN c[3][4]
    ELSE <<c[2], c[3][2]>>

\* C20: a layer-2 run proceeds in phases, and no step of a later phase is
\* executed before the earlier phase has finished: the spine cluster, then
\* the pairing of the leaves, then the trunks and vlags of the leaf
\* clusters, then the vlags for the leaves left without cluster.
C20_PhasesInOrder ==
    \A i, j \in 1..Len(cmds) : i < j =>
        /\ ~IsSpineClusterCmd(cmds[j])
        /\ IsPairBuildCmd(cmds[i]) => ~IsLeafClusterCmd(cmds[j])
        /\ IsUnclusteredCmd(cmds[i]) =>
              (~IsLeafClusterCmd(cmds[j]) /\ ~IsPairBuildCmd(cmds[j]))

\* the step issues the command c
Issues(c) == cmds' = Append(cmds, c)

\* the last cluster-create of a leaf pair among the commands issued so far
LastLeafClusterCmd ==
    cmds[CHOOSE i \in 1..Len(cmds) :
            /\ IsLeafClusterCmd(cmds[i])
            /\ \A h \in (i + 1)..Len(cmds) : ~IsLeafClusterCmd(cmds[h])]

\* every leaf pair clustered so far has the reciprocal vlag of the spines
PairsSoFarBuilt ==
    \A i \in 1..Len(cmds) : IsLeafClusterCmd(cmds[i]) =>
        \E k \in (i + 1)..Len(cmds) : cmds[k] = SpineVlagCmdOf(cmds[i])

\* C20 as the code has it: the spine cluster comes first; the leaves are
\* paired one pair at a time, and the trunks and vlags of a pair are built
\* right after its cluster, before the next leaf is taken from the worklist;
\* the vlags for the leaves left without cluster come after all of that,
\* and then the run is done.
C20_PairByPair ==
    [][/\ \A c \in Range(cmds') \ Range(cmds) : Issues(c) =>
            /\ IsSpineClusterCmd(c) => cmds = <<>>
            /\ IsLeafClusterCmd(c) =>
                  /\ \A k \in 1..Len(cmds) : ~IsUnclusteredCmd(cmds[k])
                  /\ PairsSoFarBuilt
            /\ IsPairBuildCmd(c) =>
                  /\ \A k \in 1..Len(cmds) : ~IsUnclusteredCmd(cmds[k])
                  /\ \E k \in 1..Len(cmds) : IsLeafClusterCmd(cmds[k])
                  /\ PairOfCmd(c) = <<LastLeafClusterCmd[4], LastLeafClusterCmd[5]>>
       /\ (l2_pc # "done" /\ l2_pc' = "done") => PairsSoFarBuilt]_vars

\* a completed run that clustered the spines and made two leaf pairs, the
\* vlags of the first before the cluster of the second
C20_Witness ==
    /\ L2Completed
    /\ cmds # <<>>
    /\ IsSpineClusterCmd(cmds[1])
    /\ \E i, k, j \in 1..Len(cmds) :
          /\ i < k /\ k < j
          /\ IsLeafClusterCmd(cmds[i])
          /\ IsPairBuildCmd(cmds[k])
          /\ IsLeafClusterCmd(cmds[j])

----------------------------------------------------------------------------
(* Specification SpecVlag: create_vlag called with trunk names that the    *)
(* switches may or may not have                                            *)

\* create_vlag 738-763 returns: the vlag is created unless its name is
\* listed; run_no counts the calls
CreateVlagCall(switch, name, peer_switch, port, peer_port) ==
    /\ l2_pc \in {"idle", "vlag_returned", "failed"}
    /\ run_no < MaxRuns
    /\ run_no' = run_no + 1
    /\ LET r == VlagCreate(switch, name, peer_switch, port, peer_port)
       IN  vlags' = r[1] /\ cmds' = r[2]
    /\ node1' = switch /\ node2' = peer_switch
    /\ name1' = port /\ name2' = peer_port
    /\ l2_pc' = "vlag_returned"
    /\ UNCHANGED <<topoVars, clusters, trunks, spine_list, leaf_list,
                   prev_run, kind, replay, non_cluster_leaf, nc_idx, notL2>>

\* run_cli 169-176 inside create_vlag: a CLI call yields only stderr and
\* the module exits with failed=True
CreateVlagFail(switch, peer_switch, port, peer_port) ==
    /\ l2_pc \in {"idle", "vlag_returned", "failed"}
    /\ run_no < MaxRuns
    /\ run_no' = run_no + 1
    /\ node1' = switch /\ node2' = peer_switch
    /\ name1' = port /\ name2' = peer_port
    /\ l2_pc' = "failed"
    /\ UNCHANGED <<topoVars, fabricL2Vars, cmds, spine_list, leaf_list,
                   prev_run, kind, replay, non_cluster_leaf, nc_idx, notL2>>

\* the trunks toward the spines that leaf1 and leaf2 may have
VlagTrunks ==
    { [switch |-> Switch(n),
       name |-> TrunkName(Switch(n), <<Switch("spine1"), Switch("spine2")>>),
       ports |-> {1, 2}] : n \in {"leaf1", "leaf2"} }

\* the trunk names create_vlag is called with: the trunk of the switch
\* toward the spines, and a name no switch has
VlagPortNames(switch) ==
    { TrunkName(switch, <<Switch("spine1"), Switch("spine2")>>),
      <<"no-such-trunk">> }

VlagCallNames ==
    { LeafVlagName(Switch("leaf1"), Switch("leaf2")), <<"vlag-2">> }

InitVlag ==
    /\ AddrIdle
    /\ SeqIdle
    /\ links = BaseLinks
    /\ hash_order \in HashOrders
    /\ clusters = {} /\ trunks \in SUBSET VlagTrunks /\ vlags = {}
    /\ RunIdle
    /\ L3Idle
    /\ cmds = <<>>

NextVlag ==
    \/ \E name \in VlagCallNames :
       \E port \in VlagPortNames(Switch("leaf1")) :
       \E peer_port \in VlagPortNames(Switch("leaf2")) :
          CreateVlagCall(Switch("leaf1"), name, Switch("leaf2"), port, peer_port)
    \/ \E port \in VlagPortNames(Switch("leaf1")) :
       \E peer_port \in VlagPortNames(Switch("leaf2")) :
          CreateVlagFail(Switch("leaf1"), Switch("leaf2"), port, peer_port)

SpecVlag == InitVlag /\ [][NextVlag]_vars

\* C12: create_vlag called with a local or peer trunk name that does not
\* exist on the corresponding switch fails with a missing-trunk error and
\* creates no vlag: no such call returns normally, and no vlag names a
\* trunk its switch does not have.
C12_MissingTrunkFails ==
    /\ l2_pc = "vlag_returned" =>
          (name1 \in TrunkNames(node1) /\ name2 \in TrunkNames(node2))
    /\ \A v \in vlags :
          /\ v.port \in TrunkNames(v.switch)
          /\ v.peer_port \in TrunkNames(v.peer_switch)

----------------------------------------------------------------------------
(* Layer 3: auto_configure_link_ips, pn_ztp.py 405-521 and 571-638 *)

\* switch[3:] + '-vrouter'
VrouterName(switch) == <<"o-", switch[2], "-vrouter">>

\* switch <switch> vrouter-show format name, and vrouter-show location
\* <switch> format name
VrouterNamesOn(switch) ==
    {v.name : v \in {x \in vrouters : x.location = switch}}

\* create_vrouter: <<vrouters, cmds>> after the call
create_vrouter(switch) ==
    IF VrouterName(switch) \notin VrouterNamesOn(switch)
    THEN <<vrouters \cup {[name |-> VrouterName(switch), location |-> switch]},
           Append(cmds, <<"vrouter-create", switch, VrouterName(switch)>>)>>
    ELSE <<vrouters, cmds>>

\* vrouter_name[0] of create_interface; run_cli turns an empty listing into
\* the word Success
VrouterAt(switch) ==
    IF VrouterNamesOn(switch) = {} THEN <<"Success">>
    ELSE CHOOSE n \in VrouterNamesOn(switch) : TRUE

\* vrouter-interface-show l3-port <port> ip <ip> format switch: the vrouters
\* that have an interface with this port and this ip
InterfaceOwners(port, ip) ==
    {i.vrouter : i \in {x \in interfaces : x.port = port /\ x.ip = ip}}

\* create_interface: <<interfaces, commands issued>> after the call
create_interface(switch, ip, port) ==
    IF VrouterAt(switch) \notin InterfaceOwners(port, ip)
    THEN <<interfaces \cup {[vrouter |-> VrouterAt(switch), ip |-> ip,
                             port |-> port]},
           <<<<"vrouter-interface-add", VrouterAt(switch), ip, port>>>>>>
    ELSE <<interfaces, <<>>>>

\* switch <switch> port-show port <port> format trunk: the trunks of the
\* switch that hold the port
TrunksOfPort(switch, port) ==
    {t \in trunks : t.switch = switch /\ port \in t.ports}

\* a variant that looks the trunk up and leaves it in place
delete_trunk_kept(switch, switch_port) == <<trunks, <<>>>>

\* delete_trunk: <<trunks, commands issued>> after the call; trunk[0] is one
\* of the trunks listed
delete_trunk(switch, switch_port) ==
    IF TrunksOfPort(switch, switch_port) # {}
    THEN LET trunk == CHOOSE t \in TrunksOfPort(switch, switch_port) : TRUE
         IN  <<trunks \ {trunk}, <<<<"trunk-delete", switch, trunk.name>>>>>>
    ELSE <<trunks, <<>>>>

\* the ports of a listing in the order of the CLI, lowest port first
RECURSIVE PortSeq(_)
PortSeq(S) ==
    IF S = {} THEN <<>>
    ELSE LET low == CHOOSE p \in S : \A q \in S : p <= q
         IN  <<low>> \o PortSeq(S \ {low})

\* switch <switch> port-show port <port> format rport
RPort(switch, port) ==
    LET l == CHOOSE x \in links : \/ x.a = switch /\ x.aport = port
                                  \/ x.b = switch /\ x.bport = port
    IN  IF l.a = switch /\ l.aport = port THEN l.bport ELSE l.aport

\* a variant that discards one address more
DiscardCountOneMore(supernet) == Pow2(32 - supernet) - 3

\* a variant that discards a whole sub-block after the two link addresses
DiscardCountWhole(supernet) == Pow2(32 - supernet) - 2

\* "diff = 32 - int(supernet); count = (1 << diff) - 4"
DiscardCount(supernet) == Pow2(32 - supernet) - 4

\* a variant that leaves the address handed out in the list
KeepIp(ips, ip) == ips

\* a variant that keeps the last address of the list, so that a run short
\* of addresses goes on with it
RemoveIpKeepLast(ips, ip) == IF Len(ips) = 1 THEN ips ELSE ListRemove(ips, ip)

\* "available_ips.remove(ip)"
RemoveIp(ips, ip) == ListRemove(ips, ip)

\* where the loops "for spine in spine_list: for leaf in leaf_list" stand
\* when the next "while len(leaf_port) > 0" is entered, going on from spine
\* si and leaf li (both counted from 0)
RECURSIVE Advance(_, _)
Advance(si, li) ==
    IF si >= Len(spine_list)
    THEN [spine_idx |-> si, leaf_idx |-> 0, leaf_port |-> <<>>, end |-> TRUE]
    ELSE IF li >= Len(leaf_list) THEN Advance(si + 1, 0)
    ELSE LET ports == PortSeq(get_ports(leaf_list[li + 1], spine_list[si + 1]))
         IN  IF ports = <<>> THEN Advance(si, li + 1)
             ELSE [spine_idx |-> si, leaf_idx |-> li, leaf_port |-> ports,
                   end |-> FALSE]

\* a variant that calls assign_loopback_ip before the first link is handled
LinkPcLoopbackFirst(pos) ==
    IF assign_loopback /\ handed = <<>> THEN "loopback"
    ELSE IF ~pos.end THEN "leaf_end"
    ELSE IF assign_loopback THEN "loopback" ELSE "done"

\* l3_pc when the loops over the links go on at position pos
LinkPc(pos) ==
    IF ~pos.end THEN "leaf_end"
    ELSE IF assign_loopback THEN "loopback" ELSE "done"

L3Stopped == l3_pc \in {"idle", "done", "failed", "crashed", "exited"}

\* main starts a run (pn_run_l2_l3 with pn_fabric_type layer3) on the fabric
\* as the previous run left it; auto_configure_link_ips 577-588
StartL3With(spines, leaves, loopback) ==
    /\ L3Stopped /\ l2_pc = "idle"
    /\ run_no < MaxRuns
    /\ run_no' = run_no + 1
    /\ spine_list' = spines
    /\ leaf_list' = leaves
    /\ assign_loopback' = loopback
    /\ switch_names' = ListOfSet(nodes_in_fabric)
    /\ l3_i' = 0 /\ available_ips' = <<>> /\ spine_idx' = 0 /\ leaf_idx' = 0
    /\ leaf_port' = <<>> /\ lport' = 0
    /\ handed' = <<>> /\ ifs_at_start' = interfaces /\ cmds' = <<>>
    /\ seq_mode' = "none" /\ seq_base' = <<>> /\ seq_names' = <<>>
    /\ seq_pc' = "idle" /\ seq_idx' = 0 /\ seq_count' = 0 /\ seq_output' = {}
    /\ l3_pc' = "disable_trunk"
    /\ UNCHANGED <<fabricL3Vars, trunks, loopbacks, notL3>>

\* a run with the two spines as pn_spine_list
StartL3(leaves, loopback) ==
    StartL3With(<<Switch("spine1"), Switch("spine2")>>, leaves, loopback)

\* auto_configure_link_ips 590-597: disable_trunk on one switch; after the
\* last switch the address list is computed
DisableTrunk ==
    /\ l3_pc = "disable_trunk"
    /\ auto_trunk' = auto_trunk \ {switch_names[l3_i + 1]}
    /\ cmds' = Append(cmds, <<"no-auto-trunk", switch_names[l3_i + 1]>>)
    /\ IF l3_i + 1 < Len(switch_names)
       THEN /\ l3_i' = l3_i + 1
            /\ UNCHANGED <<l3_pc, available_ips>>
       ELSE /\ l3_i' = 0
            /\ l3_pc' = "create_vrouter"
            /\ available_ips' = calculate_link_ip_addresses(
                                    calc_in.address, calc_in.cidr,
                                    calc_in.supernet)
    /\ UNCHANGED <<run_no, spine_list, leaf_list, assign_loopback,
                   switch_names, spine_idx, leaf_idx, leaf_port, lport,
                   vrouters, interfaces, trunks, handed, ifs_at_start,
                   seqLocals, loopbacks, notL3>>

\* auto_configure_link_ips 599-608: create_vrouter on one switch; after the
\* last switch the loops over spines and leaves are entered
CreateVrouter ==
    /\ l3_pc = "create_vrouter"
    /\ LET r == create_vrouter(switch_names[l3_i + 1])
       IN  vrouters' = r[1] /\ cmds' = r[2]
    /\ IF l3_i + 1 < Len(switch_names)
       THEN /\ l3_i' = l3_i + 1
            /\ UNCHANGED <<l3_pc, spine_idx, leaf_idx, leaf_port>>
       ELSE LET pos == Advance(0, 0)
            IN  /\ l3_i' = 0
                /\ spine_idx' = pos.spine_idx
                /\ leaf_idx' = pos.leaf_idx
                /\ leaf_port' = pos.leaf_port
                /\ l3_pc' = LinkPc(pos)
    /\ UNCHANGED <<run_no, spine_list, leaf_list, assign_loopback,
                   switch_names, available_ips, lport, interfaces,
                   auto_trunk, trunks, handed, ifs_at_start, seqLocals,
                   loopbacks, notL3>>

\* auto_configure_link_ips 610-617: the leaf end of a link; an empty
\* address list makes available_ips[0] raise IndexError
LeafEnd ==
    /\ l3_pc = "leaf_end"
    /\ IF available_ips = <<>>
       THEN /\ l3_pc' = "crashed"
            /\ UNCHANGED <<leaf_port, lport, available_ips, trunks,
                           interfaces, cmds, handed>>
       ELSE LET leaf == leaf_list[leaf_idx + 1]
                port == leaf_port[1]
                ip == available_ips[1]
                d == delete_trunk(leaf, port)
                c == create_interface(leaf, ip, port)
            IN  /\ lport' = port
                /\ trunks' = d[1]
                /\ interfaces' = c[1]
                /\ cmds' = cmds \o d[2] \o c[2]
                /\ handed' = Append(handed,
                                    [switch |-> leaf, port |-> port, ip |-> ip])
                /\ leaf_port' = ListRemove(leaf_port, port)
                /\ available_ips' = RemoveIp(available_ips, ip)
                /\ l3_pc' = "spine_end"
    /\ UNCHANGED <<run_no, spine_list, leaf_list, assign_loopback,
                   switch_names, l3_i, spine_idx, leaf_idx, vrouters,
                   auto_trunk, ifs_at_start, seqLocals, loopbacks, notL3>>

\* auto_configure_link_ips 618-631: the spine end of the link and the
\* addresses discarded after it; pop(0) on an empty list raises IndexError
SpineEnd ==
    /\ l3_pc = "spine_end"
    /\ IF available_ips = <<>>
       THEN /\ l3_pc' = "crashed"
            /\ UNCHANGED <<spine_idx, leaf_idx, leaf_port, available_ips,
                           trunks, interfaces, cmds, handed>>
       ELSE LET leaf == leaf_list[leaf_idx + 1]
                spine == spine_list[spine_idx + 1]
                ip == available_ips[1]
                sport == RPort(leaf, lport)
                d == delete_trunk(spine, sport)
                c == create_interface(spine, ip, sport)
                rest == RemoveIp(available_ips, ip)
                count == DiscardCount(calc_in.supernet)
                pos == IF leaf_port # <<>>
                       THEN [spine_idx |-> spine_idx, leaf_idx |-> leaf_idx,
                             leaf_port |-> leaf_port, end |-> FALSE]
                       ELSE Advance(spine_idx, leaf_idx + 1)
            IN  /\ trunks' = d[1]
                /\ interfaces' = c[1]
                /\ cmds' = cmds \o d[2] \o c[2]
                /\ handed' = Append(handed,
                                    [switch |-> spine, port |-> sport, ip |-> ip])
                /\ IF Len(rest) < count
                   THEN /\ available_ips' = <<>>
                        /\ l3_pc' = "crashed"
                        /\ UNCHANGED <<spine_idx, leaf_idx, leaf_port>>
                   ELSE /\ available_ips' = SubSeq(rest, count + 1, Len(rest))
                        /\ spine_idx' = pos.spine_idx
                        /\ leaf_idx' = pos.leaf_idx
                        /\ leaf_port' = pos.leaf_port
                        /\ l3_pc' = LinkPc(pos)
    /\ UNCHANGED <<run_no, spine_list, leaf_list, assign_loopback,
                   switch_names, l3_i, lport, vrouters, auto_trunk,
                   ifs_at_start, seqLocals, loopbacks, notL3>>

\* pn_loopback_ip, by default '101.101.101.0/32'
LoopbackIp == <<101, 101, 101, 0, 32>>

\* vrouter-show format name: the vrouters of the fabric
VrouterListing ==
    SelectSeq([k \in 1..Len(hash_order) |-> VrouterName(hash_order[k])],
              LAMBDA n : n \in {v.name : v \in vrouters})

\* auto_configure_link_ips 633-635: assign_loopback_ip is called
L3Loopback ==
    /\ l3_pc = "loopback"
    /\ seq_mode' = "loopback"
    /\ seq_base' = LoopbackIp
    /\ seq_names' = VrouterListing
    /\ seq_pc' = "call" /\ seq_idx' = 0 /\ seq_count' = 0 /\ seq_output' = {}
    /\ l3_pc' = "in_loopback"
    /\ UNCHANGED <<run_no, spine_list, leaf_list, assign_loopback, l3Locals,
                   fabricL3Vars, trunks, cmds, handed, ifs_at_start,
                   loopbacks, notL3>>

\* auto_configure_link_ips 636-638: assign_loopback_ip has returned
L3LoopbackReturn ==
    /\ l3_pc = "in_loopback"
    /\ seq_pc = "returned"
    /\ l3_pc' = "done"
    /\ UNCHANGED <<run_no, spine_list, leaf_list, assign_loopback, l3Locals,
                   fabricL3Vars, trunks, cmds, handed, ifs_at_start,
                   seqLocals, loopbacks, notL3>>

\* a CLI call of assign_loopback_ip has ended the module
L3LoopbackFail ==
    /\ l3_pc = "in_loopback"
    /\ seq_pc = "failed"
    /\ l3_pc' = "failed"
    /\ UNCHANGED <<run_no, spine_list, leaf_list, assign_loopback, l3Locals,
                   fabricL3Vars, trunks, cmds, handed, ifs_at_start,
                   seqLocals, loopbacks, notL3>>

\* run_cli 169-176: the next CLI call yields only stderr, the module exits
\* with failed=True and what was configured stays
L3CliFail ==
    /\ l3_pc \in {"disable_trunk", "create_vrouter", "leaf_end", "spine_end"}
    /\ l3_pc' = "failed"
    /\ UNCHANGED <<run_no, spine_list, leaf_list, assign_loopback, l3Locals,
                   fabricL3Vars, trunks, cmds, handed, ifs_at_start,
                   seqLocals, loopbacks, notL3>>

----------------------------------------------------------------------------
(* Specification SpecL3: layer-3 runs on a fabric of two spines and four   *)
(* leaves                                                                   *)

\* pn_net_address, pn_cidr and pn_supernet: for every supernet a block with
\* room for all the links, a /23 whose list goes on into the next third
\* octet, and blocks that run out
L3Nets ==
    { [address |-> <<192, 168, 1, 0>>, cidr |-> 26, supernet |-> 30],
      [address |-> <<192, 168, 1, 128>>, cidr |-> 25, supernet |-> 29],
      [address |-> <<192, 168, 1, 0>>, cidr |-> 24, supernet |-> 28],
      [address |-> <<10, 0, 252, 0>>, cidr |-> 23, supernet |-> 27],
      [address |-> <<10, 9, 3, 130>>, cidr |-> 28, supernet |-> 30] }

\* pn_leaf_list and pn_assign_loopback of a run
L3Inputs ==
    { <<<<Switch("leaf1"), Switch("leaf2"), Switch("leaf3"), Switch("leaf4")>>,
        FALSE>>,
      <<<<Switch("leaf2"), Switch("leaf1")>>, TRUE>> }

\* the trunks that auto-trunking made of the two links of leaf1 and spine1
AutoTrunks ==
    { [switch |-> Switch("leaf1"), name |-> <<"auto-128">>, ports |-> {1, 3}],
      [switch |-> Switch("spine1"), name |-> <<"auto-128">>,
       ports |-> {11, 15}] }

L3HashOrders == {h \in HashOrders : h[1] = Switch("spine2")}

InitL3 ==
    /\ calc_in \in L3Nets
    /\ calc_out = NoResult
    /\ SeqIdle
    /\ links = BaseLinks
    /\ hash_order \in L3HashOrders
    /\ clusters = {} /\ trunks = AutoTrunks /\ vlags = {}
    /\ RunIdle
    /\ l3_pc = "idle" /\ assign_loopback = FALSE
    /\ switch_names = <<>> /\ l3_i = 0 /\ available_ips = <<>>
    /\ spine_idx = 0 /\ leaf_idx = 0 /\ leaf_port = <<>> /\ lport = 0
    /\ vrouters = {} /\ interfaces = {} /\ auto_trunk = nodes_in_fabric
    /\ handed = <<>> /\ ifs_at_start = {}
    /\ cmds = <<>>

NextL3 ==
    \/ \E inp \in L3Inputs : StartL3(inp[1], inp[2])
    \/ DisableTrunk
    \/ CreateVrouter
    \/ LeafEnd
    \/ SpineEnd
    \/ L3Loopback
    \/ SeqEnter
    \/ LoopbackStep
    \/ SeqReturn
    \/ SeqCliFail
    \/ L3LoopbackReturn
    \/ L3LoopbackFail
    \/ L3CliFail

SpecL3 == InitL3 /\ [][NextL3]_vars

----------------------------------------------------------------------------
(* Claims about layer-3 runs *)

\* C8: within one layer-3 run no two create_interface calls, for the two
\* ends of one link or for ends of different links, are given the same
\* address.
C8_NoAddressTwice ==
    \A i \in 1..Len(handed) : \A j \in 1..Len(handed) :
        i < j => handed[i].ip # handed[j].ip

\* a completed run over all nine links, the two links of leaf1 and spine1
\* among them
C8_Witness ==
    /\ l3_pc = "done"
    /\ Len(handed) = 18
    /\ \E i \in 1..Len(handed) : \E j \in 1..Len(handed) :
          /\ handed[i].switch = Switch("spine1")
          /\ handed[j].switch = Switch("spine1")
          /\ handed[i].port = 11 /\ handed[j].port = 15

\* C9: an address that a vrouter interface held when the layer-3 run started
\* is bound to no other interface, on another switch or another port, by the
\* run.
C9_NoRebind ==
    \A e \in ifs_at_start : \A f \in interfaces :
        f.ip = e.ip => (f.vrouter = e.vrouter /\ f.port = e.port)

\* the number of links of the run whose two ends have been handled
LinksDone == Len(handed) \div 2

\* the size of a sub-block with its network and broadcast address
BlockSize == supernet_mapping[calc_in.supernet] + 2

\* ip is the first usable address of the sub-block that follows the
\* sub-block of prev in the list: the next one in the same third octet, or
\* the first one of the next third octet
NextSubBlock(prev, ip) ==
    \/ ip = [prev EXCEPT ![4] = @ + BlockSize]
    \/ /\ prev[4] + BlockSize > 255
       /\ ip = [prev EXCEPT ![3] = @ + 1, ![4] = 1]

\* the step that handles the leaf end of a link, and the step that handles
\* its spine end and completes the link
LeafEndTaken == l3_pc = "leaf_end" /\ l3_pc' = "spine_end"

SpineEndTaken ==
    l3_pc = "spine_end" /\ l3_pc' \in {"leaf_end", "loopback", "done"}

\* C10: in a layer-3 run every link consumes the usable addresses of one
\* sub-block (2, 6, 14 or 30 for supernet 30, 29, 28, 27): its leaf end and
\* its spine end get the first and the second usable address of the
\* sub-block, the rest of the sub-block is dropped from the list, and after
\* the link the list starts at the first usable address of the next
\* sub-block.
C10_OneSubBlockPerLink ==
    [][/\ LeafEndTaken =>
            /\ Len(handed') = Len(handed) + 1
            /\ handed'[Len(handed')].switch \in Leaves
            /\ handed'[Len(handed')].ip = available_ips[1]
            /\ available_ips[1][4] % BlockSize = 1
            /\ Len(available_ips) - Len(available_ips') = 1
            /\ available_ips' = Tail(available_ips)
       /\ SpineEndTaken =>
            LET leaf_end == handed[Len(handed)]
                spine_end == handed'[Len(handed')]
            IN  /\ Len(handed') = Len(handed) + 1
                /\ Len(handed') = 2 * (Len(handed') \div 2)
                /\ spine_end.switch \in Spines
                /\ spine_end.port = RPort(leaf_end.switch, leaf_end.port)
                /\ spine_end.ip = available_ips[1]
                /\ spine_end.ip = [leaf_end.ip EXCEPT ![4] = @ + 1]
                /\ Len(available_ips) - Len(available_ips') = BlockSize - 3
                /\ available_ips' = SubSeq(available_ips, BlockSize - 2,
                                           Len(available_ips))
                /\ available_ips' # <<>> =>
                      NextSubBlock(leaf_end.ip, available_ips'[1])]_vars

\* eight links are done and the ninth starts in the next third octet
C10_Witness ==
    /\ l3_pc = "leaf_end"
    /\ LinksDone = 8
    /\ calc_in.supernet = 27
    /\ available_ips # <<>>
    /\ available_ips[1][3] = handed[1].ip[3] + 1
    /\ available_ips[1][4] = 1

\* the number of leaf-spine links the loops of the current run visit
RunLinks ==
    LET ports == {l.aport : l \in links} \cup {l.bport : l \in links}
    IN  Cardinality({t \in (1..Len(spine_list)) \X (1..Len(leaf_list)) \X ports :
                        t[3] \in get_ports(leaf_list[t[2]], spine_list[t[1]])})

\* the number of sub-blocks in the list calculate_link_ip_addresses returns
\* for the parameters of the run
SubBlocks ==
    Len(calculate_link_ip_addresses(calc_in.address, calc_in.cidr,
                                    calc_in.supernet)) \div (BlockSize - 2)

\* C14: when a layer-3 run has more leaf-spine links than
\* calculate_link_ip_addresses produced sub-blocks, the address phase aborts
\* with a failure raised to the caller (the IndexError of available_ips[0]):
\* the run does not get past the address phase, the step that finds the list
\* empty binds nothing, every sub-block has gone to one link before, and no
\* address has been bound a second time.
C14_ExhaustionAborts ==
    /\ [](l3_pc = "crashed" =>
            /\ available_ips = <<>>
            /\ RunLinks > SubBlocks
            /\ Len(handed) = 2 * SubBlocks
            /\ \A i, j \in 1..Len(handed) : i < j => handed[i].ip # handed[j].ip)
    /\ [][/\ (l3_pc # "crashed" /\ l3_pc' = "crashed") =>
               (interfaces' = interfaces /\ cmds' = cmds /\ handed' = handed)
          /\ (l3_pc \in {"create_vrouter", "spine_end"}
                 /\ l3_pc' \in {"loopback", "done"}) =>
               RunLinks <= SubBlocks]_vars

\* a run over five or nine links with a list of four sub-blocks has stopped
\* after four links
C14_Witness ==
    /\ l3_pc = "crashed"
    /\ Len(handed) = 8
    /\ Cardinality(interfaces) >= 8
    /\ RunLinks > 4

----------------------------------------------------------------------------
(* Specification SpecMain: main with pn_run_l2_l3 set, for layer 2 or for  *)
(* layer 3, up to the module result                                        *)

\* what the end of main leaves alone
notMainTail == <<addrVars, seqVars, topoVars, fabricL2Vars, runVars, L2Locals,
                 assign_loopback, l3Locals, fabricL3Vars, handed, ifs_at_start,
                 cliVars, bgpVars>>

\* modify_stp 206-225: stp-modify enable on every switch that
\* fabric-node-show lists
StpCommands ==
    [k \in 1..Len(ListOfSet(nodes_in_fabric)) |->
        <<"stp-modify", ListOfSet(nodes_in_fabric)[k], "enable">>]

\* main 1136-1149 after configure_auto_vlag or auto_configure_link_ips has
\* returned (pn_update_fabric_to_inband is off): modify_stp, then exit_json
ModifyStp ==
    /\ \/ l2_pc = "done" /\ kind = "ztp" /\ l2_pc' = "exited" /\ l3_pc' = l3_pc
       \/ l3_pc = "done" /\ l3_pc' = "exited" /\ l2_pc' = l2_pc
    /\ cmds' = cmds \o StpCommands
    /\ UNCHANGED notMainTail

\* run_cli 169-176 inside modify_stp: the listing (k = 0) or the stp-modify
\* of switch k + 1 yields only stderr and the module exits with failed=True
ModifyStpFail(k) ==
    /\ \/ l2_pc = "done" /\ kind = "ztp" /\ l2_pc' = "failed" /\ l3_pc' = l3_pc
       \/ l3_pc = "done" /\ l3_pc' = "failed" /\ l2_pc' = l2_pc
    /\ cmds' = cmds \o SubSeq(StpCommands, 1, k)
    /\ UNCHANGED notMainTail

\* the module has handed its result to Ansible
RunEnded == l2_pc \in {"exited", "failed"} \/ l3_pc \in {"exited", "failed"}

\* the changed flag of the result: True in the exit_json of main (1148),
\* False in the exit_json of run_cli (175)
ModuleChanged == l2_pc = "exited" \/ l3_pc = "exited"

\* pn_spine_list and pn_leaf_list of a run: the two spines and three leaves,
\* no leaf, no spine
MainInputs ==
    { <<<<Switch("spine1"), Switch("spine2")>>,
        <<Switch("leaf1"), Switch("leaf2"), Switch("leaf3")>>>>,
      <<<<Switch("spine1"), Switch("spine2")>>, <<>>>>,
      <<<<>>, <<Switch("leaf1"), Switch("leaf2"), Switch("leaf3")>>>> }

InitMain ==
    /\ calc_in = [address |-> <<192, 168, 1, 0>>, cidr |-> 26, supernet |-> 30]
    /\ calc_out = NoResult
    /\ SeqIdle
    /\ links = BaseLinks \cup {LeafLink(1, 2)}
    /\ hash_order \in L3HashOrders
    /\ clusters = {} /\ trunks = {} /\ vlags = {}
    /\ RunIdle
    /\ l3_pc = "idle" /\ assign_loopback = FALSE
    /\ switch_names = <<>> /\ l3_i = 0 /\ available_ips = <<>>
    /\ spine_idx = 0 /\ leaf_idx = 0 /\ leaf_port = <<>> /\ lport = 0
    /\ vrouters = {} /\ interfaces = {} /\ auto_trunk = nodes_in_fabric
    /\ handed = <<>> /\ ifs_at_start = {}
    /\ cmds = <<>>

NextMain ==
    \/ \E inp \in MainInputs : StartL2With(inp[1], inp[2])
    \/ \E inp \in MainInputs : StartL3With(inp[1], inp[2], FALSE)
    \/ SpineCluster
    \/ LeafNoCluster
    \/ PairPop
    \/ PairCluster
    \/ PairTrunk
    \/ PairLeafVlag
    \/ PairSpineVlag
    \/ LeafNoCluster2
    \/ NcTrunk
    \/ NcVlag
    \/ L2CliFail
    \/ DisableTrunk
    \/ CreateVrouter
    \/ LeafEnd
    \/ SpineEnd
    \/ L3CliFail
    \/ ModifyStp
    \/ \E k \in 0..(Len(StpCommands) - 1) : ModifyStpFail(k)

SpecMain == InitMain /\ [][NextMain]_vars

\* C15: if the spine list or the leaf list is empty, a layer-2 run and a
\* layer-3 run each abort without having issued any mutating command: the
\* run issues no command and does not come to a normal end.
C15_EmptyTopologyAborts ==
    (run_no >= 1 /\ (spine_list = <<>> \/ leaf_list = <<>>)) =>
        /\ cmds = <<>>
        /\ l2_pc \notin {"done", "exited"}
        /\ l3_pc \notin {"done", "exited"}

\* C16: the changed flag of the module result is true exactly when the run
\* has executed at least one mutating command; a layer-2 run that found
\* every object in place reports changed = false.
C16_ChangedMeansChanged ==
    /\ RunEnded => (ModuleChanged <=> cmds # <<>>)
    /\ (l2_pc = "exited" /\ clusters = prev_run.clusters
           /\ trunks = prev_run.trunks /\ vlags = prev_run.vlags)
          => ~ModuleChanged

----------------------------------------------------------------------------
(* Claims about the order and the end of layer-3 runs *)

\* the commands of the current run with the given verb
CmdsOf(verb) == {k \in 1..Len(cmds) : cmds[k][1] = verb}

\* C21: a layer-3 run proceeds in the stated phase order: auto-trunking is
\* disabled on every fabric switch before any vrouter is created, a vrouter
\* exists on every fabric switch before any link interface is bound, and
\* loopback addresses (when requested) are assigned only after all link
\* interfaces have been bound.
C21_L3PhasesInOrder ==
    [][/\ vrouters' # vrouters =>
            /\ auto_trunk = {}
            /\ \A s \in nodes_in_fabric : <<"no-auto-trunk", s>> \in Range(cmds)
            /\ handed = <<>>
       /\ (l3_pc = "disable_trunk" /\ cmds' # cmds) =>
            /\ CmdsOf("vrouter-create") = {}
            /\ vrouters' = vrouters
            /\ handed' = <<>>
       /\ (handed' # handed /\ handed' # <<>>) =>
            /\ \A s \in nodes_in_fabric : VrouterName(s) \in VrouterNamesOn(s)
            /\ \A s \in nodes_in_fabric : <<"no-auto-trunk", s>> \in Range(cmds)
            /\ CmdsOf("vrouter-loopback-interface-add") = {}
            /\ l3_pc \notin {"disable_trunk", "create_vrouter", "loopback",
                              "in_loopback"}
       /\ (loopbacks' # loopbacks \/ l3_pc' \in {"loopback", "in_loopback"}) =>
            /\ assign_loopback
            /\ Len(handed') = 2 * RunLinks
            /\ Cardinality({<<h.switch, h.port>> : h \in Range(handed')})
                  = 2 * RunLinks
            /\ \A h \in Range(handed') :
                  \E f \in interfaces' :
                      /\ f.port = h.port /\ f.ip = h.ip
                      /\ f.vrouter = VrouterName(h.switch)]_vars

\* a run that was asked for loopback addresses has disabled auto-trunking,
\* created the vrouters, bound both ends of its five links and assigned the
\* loopback addresses
C21_Witness ==
    /\ l3_pc = "done" /\ assign_loopback
    /\ Len(handed) = 10
    /\ Cardinality(CmdsOf("no-auto-trunk")) = Cardinality(nodes_in_fabric)
    /\ Cardinality(CmdsOf("vrouter-create")) = Cardinality(nodes_in_fabric)
    /\ Cardinality(CmdsOf("vrouter-interface-add")) = 10
    /\ Cardinality(CmdsOf("vrouter-loopback-interface-add"))
          = Cardinality(nodes_in_fabric)

----------------------------------------------------------------------------
(* Specification SpecL3Trunks: layer-3 runs on fabrics with the trunks that *)
(* auto-trunking or a layer-2 run has left                                  *)

\* a trunk as create_trunk names it
L2Trunk(node, dest_list, ports) ==
    [switch |-> node, name |-> TrunkName(node, dest_list), ports |-> ports]

\* the trunks of a layer-2 run that paired leaf1 with leaf2 and found leaf3
\* in no cluster
PairTrunks ==
    LET spines == <<Switch("spine1"), Switch("spine2")>>
        pair == <<Switch("leaf1"), Switch("leaf2")>>
    IN  { L2Trunk(Switch("leaf1"), spines, {1, 2, 3}),
          L2Trunk(Switch("leaf2"), spines, {1, 2}),
          L2Trunk(Switch("spine1"), pair, {11, 12, 15}),
          L2Trunk(Switch("spine2"), pair, {11, 12}),
          L2Trunk(Switch("leaf3"), spines, {1, 2}),
          L2Trunk(Switch("spine1"), <<Switch("leaf3")>>, {13}),
          L2Trunk(Switch("spine2"), <<Switch("leaf3")>>, {13}) }

\* the trunks a run may find: none, the auto trunks, the trunks of a layer-2
\* run, trunks on the leaves only; every port is in at most one trunk
L3TrunkSets ==
    { {}, AutoTrunks, PairTrunks, {t \in PairTrunks : t.switch \in Leaves} }

InitL3Trunks ==
    /\ calc_in = [address |-> <<192, 168, 1, 0>>, cidr |-> 26, supernet |-> 30]
    /\ calc_out = NoResult
    /\ SeqIdle
    /\ links = BaseLinks
    /\ hash_order \in L3HashOrders
    /\ clusters = {} /\ trunks \in L3TrunkSets /\ vlags = {}
    /\ RunIdle
    /\ l3_pc = "idle" /\ assign_loopback = FALSE
    /\ switch_names = <<>> /\ l3_i = 0 /\ available_ips = <<>>
    /\ spine_idx = 0 /\ leaf_idx = 0 /\ leaf_port = <<>> /\ lport = 0
    /\ vrouters = {} /\ interfaces = {} /\ auto_trunk = nodes_in_fabric
    /\ handed = <<>> /\ ifs_at_start = {}
    /\ cmds = <<>>

SpecL3Trunks == InitL3Trunks /\ [][NextL3]_vars

\* the commands a step adds to those of the run
NewCmds == SubSeq(cmds', Len(cmds) + 1, Len(cmds'))

\* the trunks of a switch that hold a port, before and after a step
TrunksOfPortAfter(switch, port) ==
    {t \in trunks' : t.switch = switch /\ port \in t.ports}

\* C22: in a layer-3 run, for each leaf-spine link the trunk containing the
\* link's port is deleted on an end before the interface is bound on that
\* end, on both the leaf end and the spine end; when the run completes, no
\* port that carries a bound layer-3 interface is a member of any trunk.
C22_TrunkDeletedBeforeBind ==
    /\ [][(Len(handed') = Len(handed) + 1) =>
            LET h == handed'[Len(handed')]
                held == TrunksOfPort(h.switch, h.port)
            IN  /\ h.switch \in (IF l3_pc = "leaf_end" THEN Leaves ELSE Spines)
                /\ TrunksOfPortAfter(h.switch, h.port) = {}
                /\ \A t \in held :
                      /\ NewCmds # <<>>
                      /\ NewCmds[1] = <<"trunk-delete", h.switch, t.name>>
                /\ \A k \in 1..Len(NewCmds) :
                      NewCmds[k][1] = "vrouter-interface-add" =>
                          /\ k = Len(NewCmds)
                          /\ NewCmds[k][4] = h.port
                /\ \E f \in interfaces' :
                      /\ f.vrouter = VrouterName(h.switch)
                      /\ f.port = h.port /\ f.ip = h.ip]_vars
    /\ [](l3_pc \in {"loopback", "in_loopback", "done"} =>
            \A f \in interfaces : \A t \in trunks :
                ~(f.vrouter = VrouterName(t.switch) /\ f.port \in t.ports))

\* a completed run over the nine links on a fabric with the trunks of a
\* layer-2 run: the seven trunks were deleted and the two ends of the second
\* link of leaf1 and spine1 carry interfaces
C22_Witness ==
    /\ l3_pc = "done"
    /\ run_no = 1
    /\ Len(handed) = 18
    /\ Cardinality(CmdsOf("trunk-delete")) = 7
    /\ trunks = {}
    /\ \E f \in interfaces :
          f.vrouter = VrouterName(Switch("leaf1")) /\ f.port = 3
    /\ \E f \in interfaces :
          f.vrouter = VrouterName(Switch("spine1")) /\ f.port = 15

----------------------------------------------------------------------------
(* Specification SpecCli: layer-2 runs in which a command may end with an   *)
(* error status after it has written to stdout                              *)

\* run_cli 163-167 under create_cluster 661, called at 903: cluster-create
\* of the spine cluster ends with an error status and text on stdout;
\* run_cli returns the text ("if out: return out", rc is not looked at), no
\* cluster is created and configure_auto_vlag goes on
SpineClusterRefused ==
    /\ l2_pc = "spine_cluster"
    /\ Len(spine_list) >= 2
    /\ <<"spine-cluster">> \notin ClusterNames
    /\ cmds' = Append(cmds, <<"cluster-create", spine_list[1],
                               <<"spine-cluster">>, spine_list[1],
                               spine_list[2]>>)
    /\ rc_dropped' = run_no
    /\ l2_pc' = "leaf_no_cluster"
    /\ UNCHANGED <<topoVars, fabricL2Vars, runVars, L2Locals, addrVars,
                   seqVars, l3Vars, bgpVars>>

\* the same under create_cluster called at 836-837 for a leaf pair: no
\* cluster is created, node2 leaves the worklist (840) and the trunks and
\* vlags of the pair are built
PairClusterRefused ==
    /\ l2_pc = "pair_cluster"
    /\ ClusterName(node1, node2) \notin ClusterNames
    /\ cmds' = Append(cmds, <<"cluster-create", node2,
                               ClusterName(node1, node2), node1, node2>>)
    /\ rc_dropped' = run_no
    /\ non_cluster_leaf' = ListRemove(non_cluster_leaf, node2)
    /\ l2_pc' = IF kind = "ztp" THEN "leaf_trunk1" ELSE "pair"
    /\ UNCHANGED <<topoVars, fabricL2Vars, runVars, node1, node2, name1,
                   name2, nc_idx, addrVars, seqVars, l3Vars, bgpVars>>

\* pn_leaf_list of the runs
CliLeafLists ==
    { <<Switch("leaf1"), Switch("leaf2"), Switch("leaf3")>>,
      <<Switch("leaf3"), Switch("leaf2"), Switch("leaf1")>> }

InitCli ==
    /\ AddrIdle
    /\ SeqIdle
    /\ links \in {BaseLinks, BaseLinks \cup {LeafLink(1, 2)}}
    /\ hash_order \in HashOrders
    /\ clusters = {} /\ trunks = {} /\ vlags = {}
    /\ RunIdle
    /\ L3Idle
    /\ cmds = <<>>

NextCli ==
    \/ \E leaves \in CliLeafLists : StartL2(leaves)
    \/ SpineCluster
    \/ SpineClusterRefused
    \/ LeafNoCluster
    \/ PairPop
    \/ PairCluster
    \/ PairClusterRefused
    \/ PairTrunk
    \/ PairLeafVlag
    \/ PairSpineVlag
    \/ LeafNoCluster2
    \/ NcTrunk
    \/ NcVlag
    \/ L2CliFail

SpecCli == InitCli /\ [][NextCli]_vars

\* a control-plane call of the current run has failed: run_cli has ended the
\* module, or it has returned the output of the command that failed
CallFailed ==
    /\ run_no >= 1
    /\ l2_pc = "failed" \/ rc_dropped = run_no

\* C23: once a control-plane call fails, the run stops with a failed status
\* and issues no further control-plane command (query or mutation) for the
\* remaining steps; objects created before the failure are left in place.
C23_FailureStopsRun ==
    [][/\ (~CallFailed /\ CallFailed') =>
            /\ l2_pc' = "failed"
            /\ clusters' = clusters /\ trunks' = trunks /\ vlags' = vlags
       /\ (CallFailed /\ run_no' = run_no) =>
            /\ l2_pc' = "failed"
            /\ cmds' = cmds
            /\ clusters' = clusters /\ trunks' = trunks /\ vlags' = vlags]_vars

----------------------------------------------------------------------------
(* pn_ebgp: main 466-510, assigning_bgp_as 135-177, bgp_redistribute        *)
(* 296-319, bgp_maxpath 322-345, bgp_neighbor 180-259, assign_router_id     *)
(* 262-293, create_leaf_cluster 451-463                                     *)

\* what the steps of pn_ebgp before create_leaf_cluster leave alone
notBgp == <<addrVars, seqVars, topoVars, fabricL2Vars, l2Vars, l3Vars, cliVars>>

\* vrouter-show name <vrouter> format location
VrouterLocation(vrouter) ==
    (CHOOSE v \in vrouters : v.name = vrouter).location

\* vrouter-show location <switch> format bgp-as; run_cli turns an empty
\* output into the word Success
BgpAsAt(switch) ==
    LET set == {e \in bgp_as : e[1] \in VrouterNamesOn(switch)}
    IN  IF set = {} THEN <<"Success">> ELSE (CHOOSE e \in set : TRUE)[2]

\* vrouter-modify name <vrouter> bgp-as <n>
SetBgpAs(vrouter, n) ==
    {e \in bgp_as : e[1] # vrouter} \cup {<<vrouter, n>>}

\* a variant that counts the spines as well
NextLeafAsCounted(on_spine, leaf_as) == leaf_as + 1

\* "bgp_leaf += 1" in the else branch only
NextLeafAs(on_spine, leaf_as) == IF on_spine THEN leaf_as ELSE leaf_as + 1

\* vrouter-interface-show vrouter-name <vrouter> format l3-port, without
\* the vrouter name and without duplicates
InterfacePorts(vrouter) ==
    PortSeq({i.port : i \in {x \in interfaces : x.vrouter = vrouter}})

\* switch <switch> port-show port <port> format hostname
PortHostname(switch, port) ==
    LET l == CHOOSE x \in links : \/ x.a = switch /\ x.aport = port
                                  \/ x.b = switch /\ x.bport = port
    IN  IF l.a = switch /\ l.aport = port THEN l.b ELSE l.a

\* vrouter-interface-show vrouter-name <vrouter> l3-port <port> format ip,
\* without the vrouter name
InterfaceIps(vrouter, port) ==
    {i.ip : i \in {x \in interfaces : x.vrouter = vrouter /\ x.port = port}}

\* vrouter-bgp-show remote-as <as> neighbor <ip> format switch: the vrouters
\* with such an entry
BgpOwners(nbrs, as, ip) ==
    {n.vrouter : n \in {x \in nbrs : x.remote_as = as /\ x.neighbor = ip}}

\* a variant that takes the address of the vrouter's own interface
NeighborIpOwn(vrouter, port, vrouter_hostname, port_hostname) ==
    LET ip == CHOOSE x \in InterfaceIps(vrouter, port) : TRUE
    IN  SubSeq(ip, 1, 4)

\* ip_hostname: the first address listed for the far end, up to the '/'
NeighborIp(vrouter, port, vrouter_hostname, port_hostname) ==
    LET ip == CHOOSE x \in InterfaceIps(vrouter_hostname, port_hostname) : TRUE
    IN  SubSeq(ip, 1, 4)

\* bgp_neighbor 199-255: "for port in port_num" for one vrouter, from the
\* neighbors nbrs and the commands log; ok is FALSE when the far end has no
\* interface on its port and ip_hostname_subnet[0] raises IndexError
RECURSIVE AddNeighbors(_, _, _, _)
AddNeighbors(vrouter, ports, nbrs, log) ==
    IF ports = <<>> THEN [nbrs |-> nbrs, log |-> log, ok |-> TRUE]
    ELSE LET switch == VrouterLocation(vrouter)
             port == Head(ports)
             hostname == PortHostname(switch, port)
             bgp_hostname == BgpAsAt(hostname)
             port_hostname == RPort(switch, port)
             vrouter_hostname == VrouterAt(hostname)
         IN  IF InterfaceIps(vrouter_hostname, port_hostname) = {}
             THEN [nbrs |-> nbrs, log |-> log, ok |-> FALSE]
             ELSE LET ip_hostname == NeighborIp(vrouter, port, vrouter_hostname,
                                                port_hostname)
                  IN  IF vrouter \in BgpOwners(nbrs, bgp_hostname, ip_hostname)
                      THEN AddNeighbors(vrouter, Tail(ports), nbrs, log)
                      ELSE AddNeighbors(vrouter, Tail(ports),
                               nbrs \cup {[vrouter |-> vrouter,
                                           neighbor |-> ip_hostname,
                                           remote_as |-> bgp_hostname]},
                               Append(log, <<"vrouter-bgp-add", vrouter,
                                             ip_hostname, bgp_hostname>>))

\* vrouter-loopback-interface-show vrouter-name <vrouter> format ip, without
\* the vrouter name
LoopbackIps(vrouter) == {e[2] : e \in {x \in loopbacks : x[1] = vrouter}}

\* assign_router_id 277-288: "for vrouter in vrouter_names"; ok is FALSE
\* when a vrouter has no loopback interface and loopback_ip.remove(vrouter)
\* raises ValueError
RECURSIVE RouterIds(_, _)
RouterIds(names, log) ==
    IF names = <<>> THEN [log |-> log, ok |-> TRUE]
    ELSE IF LoopbackIps(Head(names)) = {} THEN [log |-> log, ok |-> FALSE]
    ELSE RouterIds(Tail(names),
                   Append(log, <<"vrouter-modify", Head(names), "router-id",
                                 CHOOSE ip \in LoopbackIps(Head(names)) : TRUE>>))

\* the module has handed its result to Ansible or has been ended by an
\* exception
BgpStopped ==
    \/ bgp_pc \in {"idle", "exited", "failed", "crashed"}
    \/ bgp_pc = "in_leaf_cluster" /\ l2_pc = "failed"

\* main 486-491 and assigning_bgp_as 142-154: a run of pn_ebgp starts on the
\* fabric as it is
StartBgp(spines, leaves, base) ==
    /\ BgpStopped /\ L3Stopped
    /\ bgp_run < MaxRuns
    /\ bgp_run' = bgp_run + 1
    /\ spine_list' = spines
    /\ leaf_list' = leaves
    /\ bgp_base' = base
    /\ bgp_leaf' = base + 1
    /\ bgp_idx' = 0
    /\ cmds' = <<>>
    /\ bgp_pc' = "bgp_as"
    /\ UNCHANGED <<bgp_as, bgp_nbrs, run_no, l2_pc, prev_run, kind, replay,
                   L2Locals, addrVars, seqVars, topoVars, fabricL2Vars, l3Vars,
                   cliVars>>

\* assigning_bgp_as 156-177: one vrouter of the listing gets its bgp-as;
\* with no vrouter left the function returns
BgpAs ==
    /\ bgp_pc = "bgp_as"
    /\ IF bgp_idx < Len(VrouterListing)
       THEN LET vrouter == VrouterListing[bgp_idx + 1]
                on_spine == VrouterLocation(vrouter) \in Range(spine_list)
                n == IF on_spine THEN bgp_base ELSE bgp_leaf
            IN  /\ bgp_as' = SetBgpAs(vrouter, n)
                /\ cmds' = Append(cmds, <<"vrouter-modify", vrouter, "bgp-as", n>>)
                /\ bgp_leaf' = NextLeafAs(on_spine, bgp_leaf)
                /\ bgp_idx' = bgp_idx + 1
                /\ bgp_pc' = bgp_pc
       ELSE /\ bgp_pc' = "bgp_redistribute"
            /\ bgp_idx' = 0
            /\ UNCHANGED <<bgp_as, cmds, bgp_leaf>>
    /\ UNCHANGED <<bgp_run, bgp_base, bgp_nbrs, notBgp>>

\* bgp_redistribute 296-319 and bgp_maxpath 322-345: vrouter-modify for
\* every vrouter of the listing
BgpModify ==
    /\ bgp_pc \in {"bgp_redistribute", "bgp_maxpath"}
    /\ cmds' = cmds \o [k \in 1..Len(VrouterListing) |->
                           <<"vrouter-modify", VrouterListing[k], bgp_pc>>]
    /\ bgp_pc' = IF bgp_pc = "bgp_redistribute" THEN "bgp_maxpath"
                 ELSE "bgp_neighbor"
    /\ UNCHANGED <<bgp_run, bgp_base, bgp_idx, bgp_leaf, bgp_as, bgp_nbrs,
                   notBgp>>

\* bgp_neighbor 191-257: the neighbors of one vrouter of the listing; with
\* no interface listed run_cli yields the word Success and
\* port_num.remove(vrouter) raises ValueError
BgpNeighbor ==
    /\ bgp_pc = "bgp_neighbor"
    /\ IF bgp_idx < Len(VrouterListing)
       THEN LET vrouter == VrouterListing[bgp_idx + 1]
                r == AddNeighbors(vrouter, InterfacePorts(vrouter), bgp_nbrs,
                                  cmds)
            IN  IF InterfacePorts(vrouter) = <<>>
                THEN /\ bgp_pc' = "crashed"
                     /\ UNCHANGED <<bgp_nbrs, cmds, bgp_idx>>
                ELSE /\ bgp_nbrs' = r.nbrs
                     /\ cmds' = r.log
                     /\ bgp_pc' = IF r.ok THEN bgp_pc ELSE "crashed"
                     /\ bgp_idx' = IF r.ok THEN bgp_idx + 1 ELSE bgp_idx
       ELSE /\ bgp_pc' = "router_id"
            /\ bgp_idx' = 0
            /\ UNCHANGED <<bgp_nbrs, cmds>>
    /\ UNCHANGED <<bgp_run, bgp_base, bgp_leaf, bgp_as, notBgp>>

\* assign_router_id 262-293
BgpRouterId ==
    /\ bgp_pc = "router_id"
    /\ LET r == RouterIds(VrouterListing, cmds)
       IN  /\ cmds' = r.log
           /\ bgp_pc' = IF r.ok THEN "leaf_cluster" ELSE "crashed"
    /\ UNCHANGED <<bgp_run, bgp_base, bgp_idx, bgp_leaf, bgp_as, bgp_nbrs,
                   notBgp>>

\* main 501 and create_leaf_cluster 458-460: the leaf pairing of pn_ebgp is
\* entered
BgpLeafCluster ==
    /\ bgp_pc = "leaf_cluster"
    /\ prev_run' = [leaf_list |-> leaf_list, result |-> l2_pc, kind |-> kind,
                     clusters |-> clusters, trunks |-> trunks,
                     vlags |-> vlags]
    /\ kind' = "ebgp" /\ replay' = NoReplay
    /\ non_cluster_leaf' = <<>> /\ node1' = <<>> /\ node2' = <<>>
    /\ name1' = <<>> /\ name2' = <<>> /\ nc_idx' = 0
    /\ l2_pc' = "leaf_no_cluster"
    /\ bgp_pc' = "in_leaf_cluster"
    /\ UNCHANGED <<bgp_run, bgp_base, bgp_idx, bgp_leaf, bgp_as, bgp_nbrs,
                   cmds, run_no, spine_list, leaf_list, addrVars, seqVars,
                   topoVars, fabricL2Vars, l3Vars, cliVars>>

\* main 504-510: create_leaf_cluster has returned, exit_json
BgpExit ==
    /\ bgp_pc = "in_leaf_cluster" /\ l2_pc = "done"
    /\ bgp_pc' = "exited"
    /\ UNCHANGED <<bgp_run, bgp_base, bgp_idx, bgp_leaf, bgp_as, bgp_nbrs,
                   cmds, notBgp>>

\* run_cli 124-130: the next CLI call yields only stderr and the module
\* exits with failed=True
BgpCliFail ==
    /\ bgp_pc \in {"bgp_as", "bgp_redistribute", "bgp_maxpath", "bgp_neighbor",
                    "router_id"}
    /\ bgp_pc' = "failed"
    /\ UNCHANGED <<bgp_run, bgp_base, bgp_idx, bgp_leaf, bgp_as, bgp_nbrs,
                   cmds, notBgp>>

----------------------------------------------------------------------------
(* Specification SpecBgp: runs of pn_ebgp on the fabric that a layer-3 run  *)
(* of pn_ztp has left                                                       *)

\* pn_leaf_list and pn_assign_loopback of the layer-3 run
BgpL3Inputs ==
    { <<<<Switch("leaf1"), Switch("leaf2"), Switch("leaf3"), Switch("leaf4")>>,
        TRUE>>,
      <<<<Switch("leaf1"), Switch("leaf2"), Switch("leaf3"), Switch("leaf4")>>,
        FALSE>>,
      <<<<Switch("leaf2"), Switch("leaf1")>>, TRUE>> }

\* pn_spine_list and pn_bgp_as_range of a pn_ebgp run
BgpInputs ==
    { <<<<Switch("spine1"), Switch("spine2")>>, 65000>>,
      <<<<Switch("spine2"), Switch("spine1")>>, 64512>>,
      <<<<Switch("spine1")>>, 65000>> }

BgpLeafList ==
    <<Switch("leaf1"), Switch("leaf2"), Switch("leaf3"), Switch("leaf4")>>

\* two orders of the listings, both with a spine between the leaves
BgpHashOrders == {h \in HashOrders : h[1] # Switch("host1")}

InitBgp ==
    /\ calc_in = [address |-> <<192, 168, 1, 0>>, cidr |-> 26, supernet |-> 30]
    /\ calc_out = NoResult
    /\ SeqIdle
    /\ links = BaseLinks \cup {LeafLink(1, 2)}
    /\ hash_order \in BgpHashOrders
    /\ clusters = {} /\ trunks = {} /\ vlags = {}
    /\ RunIdle
    /\ l3_pc = "idle" /\ assign_loopback = FALSE
    /\ switch_names = <<>> /\ l3_i = 0 /\ available_ips = <<>>
    /\ spine_idx = 0 /\ leaf_idx = 0 /\ leaf_port = <<>> /\ lport = 0
    /\ vrouters = {} /\ interfaces = {} /\ auto_trunk = nodes_in_fabric
    /\ handed = <<>> /\ ifs_at_start = {}
    /\ cmds = <<>>

NextBgp ==
    \/ \E inp \in BgpL3Inputs :
          run_no = 0 /\ bgp_run = 0 /\ StartL3(inp[1], inp[2])
    \/ DisableTrunk
    \/ CreateVrouter
    \/ LeafEnd
    \/ SpineEnd
    \/ L3Loopback
    \/ SeqEnter
    \/ LoopbackStep
    \/ SeqReturn
    \/ L3LoopbackReturn
    \/ \E inp \in BgpInputs : StartBgp(inp[1], BgpLeafList, inp[2])
    \/ BgpAs
    \/ BgpModify
    \/ BgpNeighbor
    \/ BgpRouterId
    \/ BgpLeafCluster
    \/ LeafNoCluster
    \/ PairPop
    \/ PairCluster
    \/ L2CliFail
    \/ BgpExit
    \/ BgpCliFail

SpecBgp == InitBgp /\ [][NextBgp]_vars

----------------------------------------------------------------------------
(* Claims about pn_ebgp *)

\* the vrouter is located on a switch of pn_spine_list
OnSpine(vrouter) == VrouterLocation(vrouter) \in Range(spine_list)

\* the vrouters of the listing that are not on a spine, in listing order
LeafVrouters == SelectSeq(VrouterListing, LAMBDA v : ~OnSpine(v))

\* assigning_bgp_as of the current run has returned
AsAssigned ==
    bgp_pc \in {"bgp_redistribute", "bgp_maxpath", "bgp_neighbor", "router_id",
                "leaf_cluster", "in_leaf_cluster", "exited", "crashed"}

\* C24: assigning_bgp_as gives every vrouter located on a spine the base AS
\* number, and gives the vrouters not on a spine the numbers base+1, base+2,
\* ... in vrouter listing order, so leaf AS numbers are pairwise distinct
\* and never equal to the spine AS.
C24_AsNumbers ==
    AsAssigned =>
        /\ \A k \in 1..Len(VrouterListing) :
              OnSpine(VrouterListing[k]) =>
                  <<VrouterListing[k], bgp_base>> \in bgp_as
        /\ \A k \in 1..Len(LeafVrouters) :
              <<LeafVrouters[k], bgp_base + k>> \in bgp_as
        /\ Cardinality(bgp_as) = Len(VrouterListing)
        /\ \A e \in bgp_as : \A f \in bgp_as :
              (~OnSpine(e[1]) /\ e # f) =>
                  /\ e[2] # bgp_base
                  /\ ~OnSpine(f[1]) => e[2] # f[2]

\* a completed run on six vrouters whose listing has a spine between two
\* leaves: the four leaves hold base+1 .. base+4
C24_Witness ==
    /\ bgp_pc = "exited"
    /\ Len(LeafVrouters) = 4
    /\ {e[2] : e \in bgp_as} = bgp_base..(bgp_base + 4)
    /\ \E k, m, n \in 1..Len(VrouterListing) :
          /\ k < m /\ m < n
          /\ ~OnSpine(VrouterListing[k])
          /\ OnSpine(VrouterListing[m])
          /\ ~OnSpine(VrouterListing[n])

\* the vrouter-bgp-add commands of a step
AddedNeighbors ==
    {NewCmds[k] : k \in {j \in 1..Len(NewCmds) : NewCmds[j][1] = "vrouter-bgp-add"}}

\* the link has an end on the switch of vrouter and its other end carries
\* an interface with address ip (without the prefix length) of a vrouter to
\* which this run has given the AS number as
FarEndOf(l, vrouter, ip, as) ==
    \E far \in {[switch |-> l.b, port |-> l.bport, near |-> l.a, nport |-> l.aport],
                 [switch |-> l.a, port |-> l.aport, near |-> l.b, nport |-> l.bport]} :
        /\ far.near = VrouterLocation(vrouter)
        /\ \E i \in interfaces : i.vrouter = vrouter /\ i.port = far.nport
        /\ \E i \in interfaces :
              /\ i.vrouter = VrouterName(far.switch)
              /\ i.port = far.port
              /\ SubSeq(i.ip, 1, 4) = ip
        /\ <<VrouterName(far.switch), as>> \in bgp_as
        /\ <<"vrouter-modify", VrouterName(far.switch), "bgp-as", as>>
              \in Range(cmds)

\* C25: in a pn_ebgp run, AS numbers are assigned to all vrouters before any
\* BGP neighbor is added, so every neighbor entry added for a link carries
\* as remote-as the AS number assigned in this run to the vrouter at the
\* other end of that link and as neighbor address the other end's interface
\* address; a (vrouter, neighbor, remote-as) entry that is already present
\* is not added again.
C25_NeighborsAfterAs ==
    [][/\ bgp_as' # bgp_as => CmdsOf("vrouter-bgp-add") = {}
       /\ bgp_nbrs' # bgp_nbrs => AddedNeighbors # {}
       /\ AddedNeighbors # {} =>
            /\ bgp_pc = "bgp_neighbor"
            /\ \A v \in Range(VrouterListing) :
                  \E n \in {bgp_base} \cup {e[2] : e \in bgp_as} :
                      /\ <<"vrouter-modify", v, "bgp-as", n>> \in Range(cmds)
                      /\ <<v, n>> \in bgp_as
            /\ bgp_as' = bgp_as
            /\ \A c \in AddedNeighbors :
                  /\ \E l \in links : FarEndOf(l, c[2], c[3], c[4])
                  /\ [vrouter |-> c[2], neighbor |-> c[3], remote_as |-> c[4]]
                        \notin bgp_nbrs
                  /\ [vrouter |-> c[2], neighbor |-> c[3], remote_as |-> c[4]]
                        \in bgp_nbrs'
            /\ Cardinality(AddedNeighbors)
                  = Cardinality(CmdsOf("vrouter-bgp-add")')
                      - Cardinality(CmdsOf("vrouter-bgp-add"))
            /\ Cardinality(bgp_nbrs') =
                  Cardinality(bgp_nbrs) + Cardinality(AddedNeighbors)]_vars

\* the second run with the same parameters has completed: it found the
\* eighteen entries of the nine links in place and added none
C25_Witness ==
    /\ bgp_pc = "exited"
    /\ bgp_run = 2
    /\ Cardinality(bgp_nbrs) = 18
    /\ CmdsOf("vrouter-bgp-add") = {}
    /\ \A n \in bgp_nbrs :
          \E e \in bgp_as :
              /\ e[2] = n.remote_as
              /\ \E i \in interfaces :
                    i.vrouter = e[1] /\ SubSeq(i.ip, 1, 4) = n.neighbor

----------------------------------------------------------------------------
(* Claims about the leaf pairing as a matching *)

\* the list names no leaf twice
NoDuplicates(list) == Cardinality(Range(list)) = Len(list)

\* the leaf is in no cluster
InNoCluster(leaf) == leaf \notin ClusterNode1 /\ leaf \notin ClusterNode2

\* the pairing loop of the current run has returned
PairingFinished ==
    \/ kind = "ztp" /\ l2_pc \in {"leaf_no_cluster2", "nc_leaf_trunk",
                                   "nc_spine_trunk1", "nc_spine_trunk2",
                                   "nc_vlag", "done"}
    \/ kind = "ebgp" /\ l2_pc = "done"

\* lldp-show lists a on b exactly when it lists b on a
SymmetricAdjacency ==
    \A a \in Leaves : \A b \in Leaves :
        a \in LldpSysNames(b) <=> b \in LldpSysNames(a)

\* C26: if leaf adjacency is symmetric (L sees C exactly when C sees L) and
\* the leaf list has no duplicates, then when leaf pairing finishes no two
\* leaves that are adjacent to each other are both left unclustered: the
\* greedy first-match pairing always yields a maximal (though not
\* necessarily maximum) matching.
C26_MaximalMatching ==
    (run_no >= 1 /\ PairingFinished /\ SymmetricAdjacency
        /\ NoDuplicates(leaf_list)) =>
        \A a \in Range(leaf_list) : \A b \in Range(leaf_list) :
            (a # b /\ b \in LldpSysNames(a)) =>
                ~(InNoCluster(a) /\ InNoCluster(b))

\* in a chain of four leaves the pairing has finished with one cluster and
\* two leaves left over that are not adjacent to each other, each of them
\* adjacent to a clustered leaf: a maximal matching that is not a maximum
\* one
C26_Witness ==
    /\ PairingFinished /\ NoDuplicates(leaf_list) /\ Len(leaf_list) = 4
    /\ Cardinality({c \in clusters : c.node1 \in Leaves}) = 1
    /\ \E a \in Range(leaf_list) : \E b \in Range(leaf_list) :
          /\ a # b /\ InNoCluster(a) /\ InNoCluster(b)
          /\ b \notin LldpSysNames(a)
          /\ \E c \in Range(leaf_list) : c \in LldpSysNames(a) /\ ~InNoCluster(c)
          /\ \E c \in Range(leaf_list) : c \in LldpSysNames(b) /\ ~InNoCluster(c)

\* C27: in create_leaf_cluster_vlag of pn_ztp a popped leaf is only ever
\* clustered with a neighbor that is a member of the fabric as reported by
\* the popped leaf's fabric-node list: after the neighbor filter the
\* candidate list contains no switch outside the fabric, whatever the number
\* and order of non-fabric neighbors.
C27_CandidatesInFabric ==
    (kind = "ztp" /\ run_no >= 1 /\ node1 # <<>>) =>
        /\ Range(CandidateList(node1)) \subseteq nodes_in_fabric
        /\ node2 # <<>> => node2 \in nodes_in_fabric

----------------------------------------------------------------------------
(* Specification SpecL3Short: layer-3 runs with address blocks of one to    *)
(* eight sub-blocks, for every supernet                                     *)

\* pn_net_address, pn_cidr and pn_supernet: blocks that run out after one,
\* three, four and eight links, one of them smaller than its sub-block and
\* two given by a host address
ShortNets ==
    { [address |-> <<192, 168, 1, 77>>, cidr |-> 30, supernet |-> 30],
      [address |-> <<10, 0, 0, 5>>, cidr |-> 29, supernet |-> 28],
      [address |-> <<172, 16, 255, 200>>, cidr |-> 27, supernet |-> 29],
      [address |-> <<10, 0, 252, 0>>, cidr |-> 25, supernet |-> 27],
      [address |-> <<192, 168, 1, 0>>, cidr |-> 27, supernet |-> 30] }

InitL3Short ==
    /\ calc_in \in ShortNets
    /\ calc_out = NoResult
    /\ SeqIdle
    /\ links = BaseLinks
    /\ hash_order \in L3HashOrders
    /\ clusters = {} /\ trunks = AutoTrunks /\ vlags = {}
    /\ RunIdle
    /\ l3_pc = "idle" /\ assign_loopback = FALSE
    /\ switch_names = <<>> /\ l3_i = 0 /\ available_ips = <<>>
    /\ spine_idx = 0 /\ leaf_idx = 0 /\ leaf_port = <<>> /\ lport = 0
    /\ vrouters = {} /\ interfaces = {} /\ auto_trunk = nodes_in_fabric
    /\ handed = <<>> /\ ifs_at_start = {}
    /\ cmds = <<>>

SpecL3Short == InitL3Short /\ [][NextL3]_vars

\* the number of addresses the list holds for one sub-block
Usable == supernet_mapping[calc_in.supernet]

\* the two create_interface calls are for the two ends of one link
SameLink(leaf_end, spine_end) ==
    \E l \in links :
        /\ l.a = leaf_end.switch /\ l.aport = leaf_end.port
        /\ l.b = spine_end.switch /\ l.bport = spine_end.port

\* C28: in a layer-3 run address exhaustion can only be hit when the leaf
\* end of a new link asks for its address, never between binding a link's
\* leaf end and its spine end and never while discarding the rest of a
\* sub-block: the remaining address list always holds a whole number of
\* sub-blocks, so no link is left with only one end bound because the
\* addresses ran out.
C28_ExhaustionAtLeafEndOnly ==
    /\ [](l3_pc \notin {"spine_end", "failed"} =>
            Len(available_ips) % Usable = 0)
    /\ [](l3_pc = "spine_end" =>
            /\ available_ips # <<>>
            /\ Len(available_ips) % Usable = Usable - 1)
    /\ [](l3_pc = "crashed" =>
            /\ Len(handed) % 2 = 0
            /\ \A k \in 1..(Len(handed) \div 2) :
                  /\ SameLink(handed[2 * k - 1], handed[2 * k])
                  /\ \A h \in {handed[2 * k - 1], handed[2 * k]} :
                        \E f \in interfaces :
                            /\ f.vrouter = VrouterName(h.switch)
                            /\ f.port = h.port /\ f.ip = h.ip)
    /\ [][(l3_pc # "crashed" /\ l3_pc' = "crashed") =>
            /\ l3_pc = "leaf_end"
            /\ available_ips = <<>>
            /\ interfaces' = interfaces /\ handed' = handed]_vars

\* a run over nine links with a list of three sub-blocks of six addresses
\* has stopped at the leaf end of the fourth link, the three links before
\* it bound at both ends
C28_Witness ==
    /\ l3_pc = "crashed"
    /\ calc_in.supernet = 29
    /\ Len(handed) = 6
    /\ Cardinality(interfaces) = 6
    /\ available_ips = <<>>

----------------------------------------------------------------------------
(* Specification SpecLive: runs of layer 2, of layer 3 and of the leaf      *)
(* pairing of pn_ebgp in which every CLI call returns and the module goes   *)
(* on to its next step                                                      *)

\* pn_leaf_list of the pn_ebgp runs
LiveLeafLists ==
    { <<Switch("leaf1"), Switch("leaf2"), Switch("leaf3")>>,
      <<Switch("leaf3"), Switch("leaf1"), Switch("leaf3"), Switch("leaf2")>> }

\* the steps of a run that has started, but for the calls of disable_trunk:
\* every step but the start of a run and the CLI calls that end the module
RunStep ==
    \/ SpineCluster
    \/ LeafNoCluster
    \/ PairPop
    \/ PairCluster
    \/ PairTrunk
    \/ PairLeafVlag
    \/ PairSpineVlag
    \/ LeafNoCluster2
    \/ NcTrunk
    \/ NcVlag
    \/ CreateVrouter
    \/ LeafEnd
    \/ SpineEnd
    \/ L3Loopback
    \/ SeqEnter
    \/ LoopbackStep
    \/ SeqReturn
    \/ L3LoopbackReturn
    \/ L3LoopbackFail
    \/ ModifyStp

\* disable_trunk 479-491: the call returns and the loop of
\* auto_configure_link_ips 590-591 goes on; the step of DisableTrunk, told by
\* the command it issues
DisableTrunkReturns ==
    /\ l3_pc = "disable_trunk"
    /\ cmds' = Append(cmds, <<"no-auto-trunk", switch_names[l3_i + 1]>>)

NextLive ==
    \/ \E inp \in MainInputs : StartL2With(inp[1], inp[2])
    \/ \E inp \in MainInputs : \E loopback \in BOOLEAN :
          StartL3With(inp[1], inp[2], loopback)
    \/ \E leaves \in LiveLeafLists : l3_pc = "idle" /\ StartLeafCluster(leaves)
    \/ RunStep
    \/ DisableTrunk
    \/ L2CliFail
    \/ L3CliFail
    \/ SeqCliFail
    \/ \E k \in 0..(Len(StpCommands) - 1) : ModifyStpFail(k)

SpecLive ==
    /\ InitMain
    /\ [][NextLive]_vars
    /\ WF_vars(RunStep)
    /\ WF_cmds(DisableTrunkReturns)

\* a layer-3 run is between its start and its end
L3Running == ~L3Stopped

\* C29: provided every control-plane call returns, a layer-2 run and a
\* layer-3 run always terminate for any finite leaf list, spine list and
\* adjacency: each iteration of the pairing loop removes at least one leaf
\* from the worklist and each iteration of the per-link loop removes one
\* port from the pending port list, so the run eventually reaches Done or
\* aborts.
C29_RunsTerminate ==
    /\ [][/\ (l2_pc = "pair" /\ non_cluster_leaf # <<>>) =>
               \/ Len(non_cluster_leaf') < Len(non_cluster_leaf)
               \/ l2_pc' = "failed"
          /\ (l2_pc = "pair_cluster" /\ l2_pc' # "failed") =>
               Len(non_cluster_leaf') <= Len(non_cluster_leaf)
          /\ (l3_pc = "leaf_end" /\ l3_pc' = "spine_end") =>
               Len(leaf_port') = Len(leaf_port) - 1]_vars
    /\ L2Running ~> L2Stopped
    /\ L3Running ~> L3Stopped

\* a layer-2 run has clustered leaf1 and leaf2, found leaf3 without
\* candidate, built the vlags and ended
C29_Witness ==
    /\ l2_pc = "exited" /\ kind = "ztp"
    /\ non_cluster_leaf = <<Switch("leaf3")>>
    /\ \E c \in clusters : c.node1 \in Leaves /\ c.node2 \in Leaves
    /\ \E k \in 1..Len(cmds) : cmds[k][1] = "vlag-create"

====
